---- MODULE Spec2Model ----
(***************************************************************************)
(* EchoBot voice assistant: the plugin registry (services/plugin_manager), *)
(* the intent classifier threshold (services/ml/intent_classifier), the    *)
(* two-round tool-calling turn of the web backend (web/backend/app.py      *)
(* process_user_request) and the voice loop turn (main.py EchoBot).        *)
(*                                                                         *)
(* The specifications share the variables:                                 *)
(*   SpecRegistry   any sequence of PluginManager._register_plugin calls   *)
(*   Spec           web backend: registry loaded at import, then turns of  *)
(*                  process_user_request                                   *)
(*   SpecBot        EchoBot.start main loop and EchoBot.process_input      *)
(*   SpecConn       WebSocket connections of the web backend               *)
(*   SpecEntities   EchoBot._extract_entities on a text and an intent      *)
(*   SpecLoad       PluginManager.load_plugins over the plugin files       *)
(*   SpecReminders  ReminderPlugin: rows, scheduler jobs, restarts         *)
(*   SpecSettings   ConfigLoader and the /api/settings routes              *)
(***************************************************************************)
EXTENDS Integers, Sequences, FiniteSets, TLC

\* ---------------------------------------------------------------- bounds
MaxRegs == 3        \* registration attempts in SpecRegistry
MaxTurns == 1       \* turns served in Spec and in SpecBot
MaxToolCalls == 2   \* tool invocations in one model result
MaxConns == 2       \* WebSocket clients in SpecConn
MaxConnTurns == 2   \* process_user_request calls in SpecConn

\* Python's None, distinct from every text the model draws.
None == "<None>"

\* ------------------------------------------------------- Python dict ops
\* d[k] = v on a dict modelled as a function with a finite domain
DictSet(d, k, v) == [x \in (DOMAIN d) \cup {k} |-> IF x = k THEN v ELSE d[x]]

\* d.get(k, dflt)
DictGet(d, k, dflt) == IF k \in DOMAIN d THEN d[k] ELSE dflt

EmptyDict == [x \in {} |-> None]

\* ------------------------------------------------------- plugin classes
\* The Plugin subclasses shipped under plugins/.
RepoPluginClasses ==
    {"HelpPlugin", "CalculatorPlugin", "ReminderPlugin", "TimePlugin",
     "WeatherPlugin", "WebSearchPlugin", "WikipediaPlugin"}

\* Plugin subclasses a deployment drops into plugin_dir next to the shipped
\* ones: load_plugins registers every Plugin subclass it finds, and the
\* class attributes name/intents are unconstrained (Plugin, lines 7-18).
\* ClockPlugin reuses the name "Time" with fewer intents; ForecastPlugin
\* claims the intent "weather" under its own name.
DropInPluginClasses == {"ClockPlugin", "ForecastPlugin"}

\* A drop-in class whose `intents` list holds a value that cannot be a dict
\* key: intents = ["alarm", ["snooze"], "wake"]
MalformedPluginClasses == {"AlarmPlugin"}

\* A list inside an intents list
Unhashable == "<unhashable>"

PluginClasses == RepoPluginClasses \cup DropInPluginClasses

\* class attribute `name`
ClassName(cls) ==
    CASE cls = "HelpPlugin"       -> "Help"
      [] cls = "CalculatorPlugin" -> "Calculator"
      [] cls = "ReminderPlugin"   -> "Reminders"
      [] cls = "TimePlugin"       -> "Time"
      [] cls = "WeatherPlugin"    -> "Weather"
      [] cls = "WebSearchPlugin"  -> "WebSearch"
      [] cls = "WikipediaPlugin"  -> "Wikipedia"
      [] cls = "ClockPlugin"      -> "Time"
      [] cls = "ForecastPlugin"   -> "Forecast"
      [] cls = "AlarmPlugin"      -> "Alarm"

\* class attribute `intents` (a Python list, iterated in order)
ClassIntents(cls) ==
    CASE cls = "HelpPlugin"       -> <<"help">>
      [] cls = "CalculatorPlugin" -> <<"calculate">>
      [] cls = "ReminderPlugin"   -> <<"reminder_set", "reminder_list", "reminder_delete">>
      [] cls = "TimePlugin"       -> <<"time", "date">>
      [] cls = "WeatherPlugin"    -> <<"weather">>
      [] cls = "WebSearchPlugin"  -> <<"search">>
      [] cls = "WikipediaPlugin"  -> <<"wikipedia">>
      [] cls = "ClockPlugin"      -> <<"time">>
      [] cls = "ForecastPlugin"   -> <<"weather">>
      [] cls = "AlarmPlugin"      -> <<"alarm", Unhashable, "wake">>

Range(s) == {s[k] : k \in 1..Len(s)}

Intents == UNION {Range(ClassIntents(c)) : c \in PluginClasses}

\* A plugin instance: plugin_class() builds a fresh object on every call;
\* `id` is the object's identity, `cls` its class.
Instance(id, cls) == [id |-> id, cls |-> cls]

\* ------------------------------------------------------------- registry
VARIABLES
    plugins,      \* PluginManager.plugins: name -> instance
    intent_map,   \* PluginManager.intent_map: intent -> instance
    regLog        \* history of _register_plugin calls: <<[cls, ok]>>

regVars == <<plugins, intent_map, regLog>>

\* for intent in plugin_instance.intents: self.intent_map[intent] = plugin_instance
\* An unhashable intent raises TypeError at the assignment and ends the loop.
RECURSIVE MapIntents(_, _, _)
MapIntents(im, intents, inst) ==
    IF intents = <<>> \/ Head(intents) = Unhashable THEN im
    ELSE MapIntents(DictSet(im, Head(intents), inst), Tail(intents), inst)

\* A registration that keeps the first plugin of an intent.
RECURSIVE MapIntentsFirstWins(_, _, _)
MapIntentsFirstWins(im, intents, inst) ==
    IF intents = <<>> THEN im
    ELSE MapIntentsFirstWins(
             IF Head(intents) \in DOMAIN im THEN im
             ELSE DictSet(im, Head(intents), inst),
             Tail(intents), inst)

RegisterPluginFirstWins(reg, cls, id, ctorOk) ==
    IF ~ctorOk THEN reg
    ELSE [plugins    |-> DictSet(reg.plugins, ClassName(cls), Instance(id, cls)),
          intent_map |-> MapIntentsFirstWins(reg.intent_map, ClassIntents(cls),
                                             Instance(id, cls))]

\* A registration that appends to the name map instead of overwriting: a
\* name already present gets a second entry.
RegisterPluginDuplicating(reg, cls, id, ctorOk) ==
    IF ~ctorOk THEN reg
    ELSE [plugins    |-> DictSet(reg.plugins,
                                 IF ClassName(cls) \in DOMAIN reg.plugins
                                 THEN ClassName(cls) \o "#" \o ToString(id)
                                 ELSE ClassName(cls),
                                 Instance(id, cls)),
          intent_map |-> MapIntents(reg.intent_map, ClassIntents(cls),
                                    Instance(id, cls))]

\* PluginManager._register_plugin on the maps reg = [plugins, intent_map].
\* ctorOk = FALSE: plugin_class() raises, the except clause logs and returns.
RegisterPlugin(reg, cls, id, ctorOk) ==
    IF ~ctorOk THEN reg
    ELSE [plugins    |-> DictSet(reg.plugins, ClassName(cls), Instance(id, cls)),
          intent_map |-> MapIntents(reg.intent_map, ClassIntents(cls),
                                    Instance(id, cls))]

\* _register_plugin(plugin_class) ends in its except clause: the
\* constructor raised, or the loop over the intents did
RegistrationRaises(cls, ctorOk) ==
    ~ctorOk \/ Unhashable \in Range(ClassIntents(cls))

\* PluginManager.__init__
EmptyRegistry == [plugins |-> EmptyDict, intent_map |-> EmptyDict]

\* Optional[Plugin] None, as a value comparable with instances
NoPlugin == [id |-> 0, cls |-> None]

\* A lookup of the intent in the name map instead of the intent map.
GetPluginByName(intent) == DictGet(plugins, intent, NoPlugin)

\* PluginManager.get_plugin_for_intent: self.intent_map.get(intent)
get_plugin_for_intent(intent) == DictGet(intent_map, intent, NoPlugin)

\* PluginManager.get_all_plugins: one metadata dict per value of the name
\* map, here indexed by the key whose value produced it; its length is the
\* number of keys.
get_all_plugins(pl) ==
    [n \in DOMAIN pl |-> [name |-> ClassName(pl[n].cls),
                          intents |-> ClassIntents(pl[n].cls)]]

\* ------------------------------------------------- tool schemas & tools
\* Schemas emitted whether or not the plugins are loaded.
GetToolDefinitionsUnconditional(pl) ==
    <<"get_weather", "search_wikipedia", "web_search">>

\* PluginManager.get_tool_definitions: the function names of the schemas
\* emitted, in the order of the three `if "<Name>" in self.plugins` tests.
get_tool_definitions(pl) ==
    (IF "Weather" \in DOMAIN pl THEN <<"get_weather">> ELSE <<>>)
    \o (IF "Wikipedia" \in DOMAIN pl THEN <<"search_wikipedia">> ELSE <<>>)
    \o (IF "WebSearch" \in DOMAIN pl THEN <<"web_search">> ELSE <<>>)

\* Tool names a model result can carry: the three schema names and a name
\* no schema declares.
ToolNames == {"get_weather", "search_wikipedia", "web_search", "set_alarm"}

\* tool_call.function.arguments, a string
ValidPayload == "{\"location\": \"Paris\", \"query\": \"Ada Lovelace\"}"
EmptyPayload == "{}"
ListPayload == "[1]"
MalformedPayload == "{\"location\": "
ArgPayloads == {ValidPayload, EmptyPayload, ListPayload, MalformedPayload}

\* Parsed JSON values: a dict carries its items, a list is not a dict.
JsonDict(items) == [kind |-> "dict", items |-> items]
JsonList == [kind |-> "list", items |-> EmptyDict]

\* json.loads(s): [ok, value]; ok = FALSE when it raises
JsonLoads(s) ==
    CASE s = ValidPayload ->
             [ok |-> TRUE,
              value |-> JsonDict([k \in {"location", "query"} |->
                                  IF k = "location" THEN "Paris" ELSE "Ada Lovelace"])]
      [] s = EmptyPayload -> [ok |-> TRUE, value |-> JsonDict(EmptyDict)]
      [] s = ListPayload  -> [ok |-> TRUE, value |-> JsonList]
      [] OTHER            -> [ok |-> FALSE, value |-> JsonDict(EmptyDict)]

\* A malformed payload aborts the call instead of degrading to {}.
ParseArgumentsStrict(s) ==
    IF JsonLoads(s).ok THEN JsonLoads(s).value ELSE [kind |-> "raise", items |-> EmptyDict]

\* process_user_request lines 295-298: try json.loads, except: arguments = {}
ParseArguments(s) ==
    IF JsonLoads(s).ok THEN JsonLoads(s).value ELSE JsonDict(EmptyDict)

\* What a plugin method returns for an argument (str of the plugin's answer)
PluginText(tool_name, arg) == tool_name \o "(" \o arg \o ")"

\* Result of a Python call: a value, or an exception leaving the call
Returned(v) == [raised |-> FALSE, value |-> v]
Raised(e) == [raised |-> TRUE, value |-> e]

\* The plugin method call `plugin.<method>(arguments.get(<key>))`:
\* arguments.get raises AttributeError on a non-dict, the method may raise.
CallPlugin(tool_name, key, arguments, pluginRaises) ==
    IF arguments.kind # "dict"
    THEN Raised("'list' object has no attribute 'get'")
    ELSE IF pluginRaises THEN Raised("plugin failure")
    ELSE Returned(PluginText(tool_name, DictGet(arguments.items, key, None)))

ToolNotFound(tool_name) == "Tool " \o tool_name \o " not found or plugin not loaded."

\* The try body with the web_search branch looking up "Wikipedia"
ExecuteToolBodyWebSearchByWikipedia(pl, tool_name, arguments, pluginRaises) ==
    IF tool_name = "get_weather" /\ "Weather" \in DOMAIN pl
    THEN CallPlugin(tool_name, "location", arguments, pluginRaises)
    ELSE IF tool_name = "search_wikipedia" /\ "Wikipedia" \in DOMAIN pl
    THEN CallPlugin(tool_name, "query", arguments, pluginRaises)
    ELSE IF tool_name = "web_search" /\ "Wikipedia" \in DOMAIN pl
    THEN CallPlugin(tool_name, "query", arguments, pluginRaises)
    ELSE Returned(ToolNotFound(tool_name))

\* The try body of PluginManager.execute_tool (lines 152-167)
ExecuteToolBody(pl, tool_name, arguments, pluginRaises) ==
    IF tool_name = "get_weather" /\ "Weather" \in DOMAIN pl
    THEN CallPlugin(tool_name, "location", arguments, pluginRaises)
    ELSE IF tool_name = "search_wikipedia" /\ "Wikipedia" \in DOMAIN pl
    THEN CallPlugin(tool_name, "query", arguments, pluginRaises)
    ELSE IF tool_name = "web_search" /\ "WebSearch" \in DOMAIN pl
    THEN CallPlugin(tool_name, "query", arguments, pluginRaises)
    ELSE Returned(ToolNotFound(tool_name))

\* execute_tool without its except clause
ExecuteToolNoCatch(pl, tool_name, arguments, pluginRaises) ==
    ExecuteToolBody(pl, tool_name, arguments, pluginRaises)

\* PluginManager.execute_tool: the except clause turns every exception of
\* the body into an error string.
execute_tool(pl, tool_name, arguments, pluginRaises) ==
    LET r == ExecuteToolBody(pl, tool_name, arguments, pluginRaises)
    IN IF r.raised
       THEN Returned("Error executing tool " \o tool_name \o ": " \o r.value)
       ELSE r

\* The registered name execute_tool looks up for a tool name
ToolPlugin(tool_name) ==
    CASE tool_name = "get_weather" -> "Weather"
      [] tool_name = "search_wikipedia" -> "Wikipedia"
      [] tool_name = "web_search" -> "WebSearch"
      [] OTHER -> None

\* self.plugins after an execute_tool that takes the plugin out of the dict
\* (pop) instead of reading it
PluginsAfterExecuteToolPopping(pl, tool_name) ==
    [n \in (DOMAIN pl) \ {ToolPlugin(tool_name)} |-> pl[n]]

\* self.plugins after execute_tool: the lookups are self.plugins.get(<Name>),
\* which adds and removes nothing
PluginsAfterExecuteTool(pl, tool_name) == pl

\* ------------------------------------------------------ language model
\* MockMessage / ChatCompletionMessage: content is a text or None,
\* tool_calls a list (None and [] are both the empty sequence: the code
\* only tests its truth and iterates it).
Message(content, tool_calls) ==
    [py |-> "object", role |-> "assistant", content |-> content, tool_calls |-> tool_calls]

ToolCall(id, name, arguments) == [id |-> id, name |-> name, arguments |-> arguments]

CallId(k) == "call_" \o ToString(k)

GeminiApology == "I'm having trouble thinking with Gemini right now."
OpenAINotConnected == "I'm sorry, OpenAI is not connected."
OpenAIError == "OpenAI Error: Connection error."
EmptyResponseApology == "I'm sorry, I couldn't generate a response."

\* Texts a provider completes with
LLMTexts == {"It is sunny in Paris."}

\* The (name, arguments) pairs a tool call of an OpenAI result is drawn
\* from: every tool name, and every kind of payload on some tool.
ToolCallChoices ==
    {<<"get_weather", ValidPayload>>, <<"get_weather", MalformedPayload>>,
     <<"search_wikipedia", ValidPayload>>, <<"search_wikipedia", ListPayload>>,
     <<"web_search", EmptyPayload>>, <<"set_alarm", ValidPayload>>}

\* Lists of 1..MaxToolCalls tool calls drawn from `choices`; the ids are
\* distinct within a list.
ToolCallLists(choices) ==
    UNION { { [k \in 1..n |-> ToolCall(CallId(k), f[k][1], f[k][2])] :
              f \in [1..n -> choices] } : n \in 1..MaxToolCalls }

\* A tool message that carries the tool's name where the id belongs.
ToolMessageIdFromName(tool_call, function_name, result) ==
    [py |-> "dict", tool_call_id |-> function_name, role |-> "tool",
     name |-> function_name, content |-> result]

\* process_user_request lines 303-308: the dict appended for one tool call
ToolMessage(tool_call, function_name, result) ==
    [py |-> "dict", tool_call_id |-> tool_call.id, role |-> "tool",
     name |-> function_name, content |-> result]

\* LLMService._get_google_response. The conversion loop calls msg.get on
\* every message and raises on a message object (the round-1 message that
\* process_user_request appends); every exception returns the apology.
\* _parse_gemini_response returns the first function call alone with
\* content None, its arguments json.dumps of a dict, or the response text.
GoogleResponses(msgs, tls) ==
    IF \E k \in 1..Len(msgs) : msgs[k].py = "object"
    THEN {Message(GeminiApology, <<>>)}
    ELSE {Message(GeminiApology, <<>>)}
         \cup {Message(t, <<>>) : t \in LLMTexts \cup {""}}
         \cup (IF tls = <<>> THEN {}
               ELSE {Message(None, <<ToolCall(CallId(1), n, a)>>) :
                        n \in ToolNames, a \in {ValidPayload, EmptyPayload}})

\* LLMService._get_openai_response: no client, an exception of the API
\* call, or choices[0].message; the message carries tool calls only when
\* tools were passed, and its content may be None.
OpenAIToolCallMessages ==
    {Message(c, tcs) : c \in LLMTexts \cup {"", None},
                       tcs \in ToolCallLists(ToolCallChoices)}

OpenAIResponses(cl, msgs, tls) ==
    IF cl = None THEN {Message(OpenAINotConnected, <<>>)}
    ELSE {Message(OpenAIError, <<>>)}
         \cup {Message(c, <<>>) : c \in LLMTexts \cup {"", None}}
         \cup (IF tls = <<>> THEN {} ELSE OpenAIToolCallMessages)

\* LLMService.get_response(messages, tools): the values it can return
get_response(prov, cl, msgs, tls) ==
    IF prov = "google" THEN GoogleResponses(msgs, tls)
    ELSE OpenAIResponses(cl, msgs, tls)

\* isinstance(response_message, str)
IsStr(r) == r.py = "str"

\* ----------------------------------------------------------- memory
\* f"User: {user_text}\nAssistant: {response_text}"
FullExchange(u, r) == "User: " \o u \o "\nAssistant: " \o r

\* Attributes a TTSEngine object has (services/audio/tts.py)
TTSEngineAttrs ==
    {"api_key", "client", "voice_name", "voice_id", "model_id",
     "_get_voice_id", "speak_stream", "generate_audio_bytes"}

Utterances == {"what is the weather", "who is Ada Lovelace"}

\* Documents a previous run left in the persistent collection
StoredDocs == {<<>>, <<FullExchange("hi", "Hello!")>>}

\* ------------------------------------------------------ web backend state
VARIABLES
    provider,        \* LLMService.provider
    client,          \* LLMService.client (OpenAI), None when not built
    memory_service,  \* LLMService.memory_service, None when its init failed
    memory,          \* documents of the "echobot_memory" collection
    pc,              \* position in process_user_request
    user_text,
    memory_context,
    messages,
    tools,
    response_message,
    response_text,
    idx,             \* position of the tool dispatch loop in tool_calls
    llmCalls,        \* get_response calls of the turn: <<[tools]>>
    toolLog,         \* execute_tool calls of the turn
    memLog,          \* texts handed to memory_service.add in the turn
    sent,            \* messages broadcast to the clients in the turn
    raised,          \* exception that left process_user_request, or None
    turns

webVars == <<provider, client, memory_service, memory, pc, user_text,
             memory_context, messages, tools, response_message, response_text,
             idx, llmCalls, toolLog, memLog, sent, raised, turns>>

\* ------------------------------------------------------- voice bot state
VARIABLES
    bot_pc,        \* position in EchoBot.start / process_input
    text,          \* process_input argument
    raw,           \* the pipeline's (label, confidence), or NoRaw
    intent,        \* predict's intent
    confidence,    \* predict's confidence, in hundredths
    response,      \* process_input local `response`
    botLlmCalls,   \* get_response calls of the turn
    botMemLog,     \* texts handed to a MemoryService.add in the turn
    handleLog,     \* plugin.handle calls of the turn
    spoken,        \* arguments of voice.speak in the turn
    loopErrors     \* exceptions caught by the main loop in the turn

botVars == <<bot_pc, text, raw, intent, confidence, response, botLlmCalls,
             botMemLog, handleLog, spoken, loopErrors>>

\* ------------------------------------------------ web backend connections
VARIABLES
    active_connections,  \* ConnectionManager.active_connections
    sock,                \* per WebSocket: "new", "open" or "closed" (client side)
    handler,             \* per WebSocket: position of its websocket_endpoint
    reqs                 \* the process_user_request coroutines, in start order

connVars == <<active_connections, sock, handler, reqs>>

\* ------------------------------------------------- components on their own
VARIABLES
    entities,            \* EchoBot._extract_entities: its outcome, None before the call
    walk,                \* load_plugins: the plugin files os.walk has yet to yield
    loadLog,             \* load_plugins: per file loaded, the maps before and after
    now,                 \* ReminderPlugin: datetime.now(), in hours
    reminders,           \* ReminderPlugin: rows of the reminders table, by id
    jobs,                \* ReminderPlugin: jobs of the BackgroundScheduler
    running,             \* ReminderPlugin: the process that holds the scheduler is up
    environ,             \* os.environ: the key variables that are set
    _settings,           \* ConfigLoader._settings
    responses            \* bodies of the responses of /api/settings

entVars == <<entities>>
loadVars == <<walk, loadLog>>
remVars == <<now, reminders, jobs, running>>
setVars == <<environ, _settings, responses>>

unitVars == <<entVars, loadVars, remVars, setVars>>

vars == <<regVars, webVars, botVars, connVars, unitVars>>

NoMessage == Message(None, <<>>)

\* process_user_request is not running: its locals hold nothing
ResetTurnLocals ==
    /\ user_text' = None
    /\ memory_context' = <<>>
    /\ messages' = <<>>
    /\ tools' = <<>>
    /\ response_message' = NoMessage
    /\ response_text' = None
    /\ idx' = 0
    /\ llmCalls' = <<>>
    /\ toolLog' = <<>>
    /\ memLog' = <<>>
    /\ sent' = <<>>
    /\ raised' = None

\* ------------------------------------------------------------ registry
\* PluginManager.__init__: both maps empty
RegistryEmpty ==
    /\ plugins = EmptyRegistry.plugins
    /\ intent_map = EmptyRegistry.intent_map
    /\ regLog = <<>>

\* One call of _register_plugin(plugin_class).
Register(cls, ctorOk) ==
    /\ Len(regLog) < MaxRegs
    /\ LET reg == RegisterPlugin([plugins |-> plugins, intent_map |-> intent_map],
                                 cls, Len(regLog) + 1, ctorOk)
       IN /\ plugins' = reg.plugins
          /\ intent_map' = reg.intent_map
    /\ regLog' = Append(regLog, [cls |-> cls, ok |-> ctorOk])
    /\ UNCHANGED <<webVars, botVars, connVars, unitVars>>

\* load_plugins walks plugin_dir (core/, then standard/) and registers
\* every Plugin subclass of every file. A class in `failing` is not
\* registered: its file fails to import or its constructor raises, and
\* _load_plugin_from_file / _register_plugin log and go on.
LoadOrder ==
    <<"HelpPlugin", "CalculatorPlugin", "ReminderPlugin", "WebSearchPlugin",
      "TimePlugin", "WeatherPlugin", "WikipediaPlugin">>

RECURSIVE LoadPlugins(_, _, _, _)
LoadPlugins(reg, log, classes, failing) ==
    IF classes = <<>> THEN [reg |-> reg, log |-> log]
    ELSE LET cls == Head(classes)
             ok == cls \notin failing
         IN LoadPlugins(RegisterPlugin(reg, cls, Len(log) + 1, ok),
                        Append(log, [cls |-> cls, ok |-> ok]),
                        Tail(classes), failing)

ToolPluginClasses == {"WeatherPlugin", "WikipediaPlugin", "WebSearchPlugin"}

\* The sets of classes that fail to load at start-up: none, one tool
\* plugin, all three tool plugins.
LoadFailures == {{}, {"WikipediaPlugin"}, ToolPluginClasses}

\* ----------------------------------------------------------- web backend
\* vector_store.MemoryService.query, n_results
N_RESULTS == 3

\* MemoryService.query: the documents nearest to the text, at most
\* n_results of them; [] when the collection raises or holds nothing.
QueryResults(docs) ==
    {<<>>, SubSeq(docs, 1, IF Len(docs) < N_RESULTS THEN Len(docs) ELSE N_RESULTS)}

\* PluginManager().load_plugins() at start-up: the registry after the
\* shipped classes were registered, but for those that failed to load.
LoadedRegistry ==
    \E failing \in LoadFailures :
        LET l == LoadPlugins(EmptyRegistry, <<>>, LoadOrder, failing)
        IN /\ plugins = l.reg.plugins
           /\ intent_map = l.reg.intent_map
           /\ regLog = l.log

\* LLMService.__init__: the provider, the OpenAI client (None without an
\* API key), the memory service (None when MemoryService() raised) and the
\* documents its persistent collection holds.
ServicesStarted ==
    /\ provider \in {"google", "openai"}
    /\ client \in (IF provider = "openai" THEN {"OpenAI", None} ELSE {None})
    /\ memory_service \in {"MemoryService", None}
    /\ memory \in (IF memory_service = None THEN {<<>>} ELSE StoredDocs)
    /\ turns = 0

\* process_user_request is not running
TurnIdle ==
    /\ pc = "idle"
    /\ user_text = None
    /\ memory_context = <<>>
    /\ messages = <<>>
    /\ tools = <<>>
    /\ response_message = NoMessage
    /\ response_text = None
    /\ idx = 0
    /\ llmCalls = <<>>
    /\ toolLog = <<>>
    /\ memLog = <<>>
    /\ sent = <<>>
    /\ raised = None

NoRaw == [label |-> None, conf |-> 0]
NoResponse == [kind |-> "str", text |-> ""]

\* EchoBot.process_input is not running (`response = ""` is its initial value)
BotIdle ==
    /\ bot_pc = "waiting"
    /\ text = None
    /\ raw = NoRaw
    /\ intent = None
    /\ confidence = 0
    /\ response = NoResponse
    /\ botLlmCalls = <<>>
    /\ botMemLog = <<>>
    /\ handleLog = <<>>
    /\ spoken = <<>>
    /\ loopErrors = <<>>

\* The WebSocket clients of the /ws endpoint
Conns == 1..MaxConns

\* No WebSocket was accepted and no request is being processed
ConnIdle ==
    /\ active_connections = <<>>
    /\ sock = [c \in Conns |-> "new"]
    /\ handler = [c \in Conns |-> "none"]
    /\ reqs = <<>>

\* None of the components checked on their own has been called
\* ReminderPlugin() on an empty database
RemindersIdle ==
    /\ now = 0
    /\ reminders = <<>>
    /\ jobs = {}
    /\ running = TRUE

\* _extract_entities was not called
EntitiesIdle == entities = None

\* load_plugins is not walking the plugin directory
LoadIdle ==
    /\ walk = <<>>
    /\ loadLog = <<>>

\* ConfigLoader.load_settings() with no settings file and no key in the
\* environment; no request to /api/settings was served
SettingsIdle ==
    /\ environ = EmptyDict
    /\ _settings = EmptyDict
    /\ responses = <<>>

UnitIdle == EntitiesIdle /\ LoadIdle /\ RemindersIdle /\ SettingsIdle

\* Module import of web/backend/app.py: PluginManager().load_plugins(),
\* LLMService(), TTSEngine(); no request is being processed.
InitWeb == LoadedRegistry /\ ServicesStarted /\ TurnIdle /\ BotIdle /\ ConnIdle /\ UnitIdle

\* websocket_endpoint receives a text (or the voice loop hears one) and
\* calls process_user_request(user_text).
StartTurn(u) ==
    /\ pc = "idle"
    /\ turns < MaxTurns
    /\ user_text' = u
    /\ pc' = "context"
    /\ UNCHANGED <<regVars, unitVars, botVars, connVars, provider, client, memory_service, memory,
                   memory_context, messages, tools, response_message,
                   response_text, idx, llmCalls, toolLog, memLog, sent, raised, turns>>

\* Lines 252-269: memory query (skipped without a memory service, [] when
\* it fails), the system and user messages, the tool schemas.
ContextBuild ==
    /\ pc = "context"
    /\ \E q \in (IF memory_service = None THEN {<<>>} ELSE QueryResults(memory)) :
          /\ memory_context' = q
          /\ messages' = <<[py |-> "dict", role |-> "system", content |-> q],
                           [py |-> "dict", role |-> "user", content |-> user_text]>>
    /\ tools' = get_tool_definitions(plugins)
    /\ pc' = "round1"
    /\ UNCHANGED <<regVars, unitVars, botVars, connVars, provider, client, memory_service, memory, user_text,
                   response_message, response_text, idx, llmCalls, toolLog, memLog,
                   sent, raised, turns>>

\* Lines 271-291: first get_response with the tool schemas; the str error
\* branch; response_text = content and the log line that slices it
\* (response_text[:100] raises TypeError on None); the tool-call test.
Round1 ==
    /\ pc = "round1"
    /\ \E r \in get_response(provider, client, messages, tools) :
          /\ response_message' = r
          /\ llmCalls' = Append(llmCalls, [round |-> 1, tools |-> tools])
          /\ IF IsStr(r)
             THEN /\ sent' = Append(sent, [type |-> "error", text |-> r.content])
                  /\ pc' = "done"
                  /\ UNCHANGED <<response_text, raised, messages, idx>>
             ELSE IF r.content = None
             THEN /\ raised' = "TypeError"
                  /\ pc' = "done"
                  /\ UNCHANGED <<response_text, sent, messages, idx>>
             ELSE /\ response_text' = r.content
                  /\ IF r.tool_calls # <<>>
                     THEN /\ messages' = Append(messages, r)
                          /\ idx' = 1
                          /\ pc' = "dispatch"
                     ELSE /\ pc' = "memory_write"
                          /\ UNCHANGED <<messages, idx>>
                  /\ UNCHANGED <<sent, raised>>
    /\ UNCHANGED <<regVars, unitVars, botVars, connVars, provider, client, memory_service, memory, user_text,
                   memory_context, tools, toolLog, memLog, turns>>

\* Lines 293-308, one iteration of `for tool_call in tool_calls`: parse the
\* arguments, execute_tool, append the tool message.
Dispatch ==
    /\ pc = "dispatch"
    /\ idx <= Len(response_message.tool_calls)
    /\ \E pluginRaises \in BOOLEAN :
          LET tool_call == response_message.tool_calls[idx]
              function_name == tool_call.name
              arguments == ParseArguments(tool_call.arguments)
              result == IF arguments.kind = "raise" THEN Raised("JSONDecodeError")
                        ELSE execute_tool(plugins, function_name, arguments, pluginRaises)
          IN /\ toolLog' = Append(toolLog,
                     [id |-> tool_call.id, name |-> function_name,
                      payload |-> tool_call.arguments, arguments |-> arguments,
                      bodyRaised |-> ExecuteToolBody(plugins, function_name,
                                                     arguments, pluginRaises).raised,
                      loaded |-> DOMAIN plugins,
                      result |-> result])
             /\ IF result.raised
                THEN /\ raised' = "Exception"
                     /\ pc' = "done"
                     /\ UNCHANGED <<messages, idx>>
                ELSE /\ messages' = Append(messages,
                            ToolMessage(tool_call, function_name, result.value))
                     /\ idx' = idx + 1
                     /\ pc' = IF idx = Len(response_message.tool_calls)
                              THEN "round2" ELSE "dispatch"
                     /\ UNCHANGED raised
             /\ plugins' = PluginsAfterExecuteTool(plugins, function_name)
    /\ UNCHANGED <<intent_map, regLog, unitVars, botVars, connVars, provider, client,
                   memory_service, memory, user_text,
                   memory_context, tools, response_message, response_text,
                   llmCalls, memLog, sent, turns>>

\* Lines 310-317: second get_response, without tools; response_text is the
\* str or the content, and the log line slices it.
Round2 ==
    /\ pc = "round2"
    /\ \E final_response \in get_response(provider, client, messages, <<>>) :
          /\ llmCalls' = Append(llmCalls, [round |-> 2, tools |-> <<>>])
          /\ IF final_response.content = None
             THEN /\ raised' = "TypeError"
                  /\ pc' = "done"
                  /\ UNCHANGED response_text
             ELSE /\ response_text' = final_response.content
                  /\ pc' = "memory_write"
                  /\ UNCHANGED raised
    /\ UNCHANGED <<regVars, unitVars, botVars, connVars, provider, client, memory_service, memory, user_text,
                   memory_context, messages, tools, response_message, idx,
                   toolLog, memLog, sent, turns>>

\* The memory write placed before the empty-response replacement: the
\* exchange is stored with the text as the model returned it.
MemoryWriteBeforeReplacement ==
    /\ pc = "memory_write"
    /\ response_text' = IF response_text = "" THEN EmptyResponseApology ELSE response_text
    /\ IF memory_service # None
       THEN /\ memLog' = Append(memLog, FullExchange(user_text, response_text))
            /\ \E addOk \in BOOLEAN :
                  memory' = IF addOk
                            THEN Append(memory, FullExchange(user_text, response_text))
                            ELSE memory
       ELSE UNCHANGED <<memory, memLog>>
    /\ pc' = "respond"
    /\ UNCHANGED <<regVars, unitVars, botVars, connVars, provider, client, memory_service, user_text,
                   memory_context, messages, tools, response_message, idx,
                   llmCalls, toolLog, sent, raised, turns>>

\* Lines 319-330: the empty-response replacement, then memory_service.add
\* of the exchange (MemoryService.add swallows a failing collection.add).
MemoryWrite ==
    /\ pc = "memory_write"
    /\ LET final_text == IF response_text = "" THEN EmptyResponseApology ELSE response_text
       IN /\ response_text' = final_text
          /\ IF memory_service # None
             THEN /\ memLog' = Append(memLog, FullExchange(user_text, final_text))
                  /\ \E addOk \in BOOLEAN :
                        memory' = IF addOk
                                  THEN Append(memory, FullExchange(user_text, final_text))
                                  ELSE memory
             ELSE UNCHANGED <<memory, memLog>>
    /\ pc' = "respond"
    /\ UNCHANGED <<regVars, unitVars, botVars, connVars, provider, client, memory_service, user_text,
                   memory_context, messages, tools, response_message, idx,
                   llmCalls, toolLog, sent, raised, turns>>

\* Lines 332-354: `tts_engine.is_available` is read outside any try; a
\* TTSEngine has no such attribute and the read raises AttributeError.
\* With the attribute: the "speaking" status, the audio, the payload
\* broadcast and the "idle" status when there is no audio.
Respond ==
    /\ pc = "respond"
    /\ IF "is_available" \notin TTSEngineAttrs
       THEN /\ raised' = "AttributeError"
            /\ UNCHANGED sent
       ELSE /\ \E avail \in BOOLEAN, audio_b64 \in {None, "QUJD"} :
                  /\ ~avail => audio_b64 = None
                  /\ sent' = sent
                        \o (IF avail THEN <<[type |-> "status", text |-> "speaking"]>> ELSE <<>>)
                        \o <<[type |-> "audio", text |-> response_text]>>
                        \o (IF audio_b64 = None
                            THEN <<[type |-> "status", text |-> "idle"]>> ELSE <<>>)
            /\ UNCHANGED raised
    /\ pc' = "done"
    /\ UNCHANGED <<regVars, unitVars, botVars, connVars, provider, client, memory_service, memory, user_text,
                   memory_context, messages, tools, response_message,
                   response_text, idx, llmCalls, toolLog, memLog, turns>>

\* process_user_request has returned or raised; websocket_endpoint logs an
\* exception (lines 417-419) and the caller is ready for the next text.
EndTurn ==
    /\ pc = "done"
    /\ pc' = "idle"
    /\ turns' = turns + 1
    /\ ResetTurnLocals
    /\ UNCHANGED <<regVars, unitVars, botVars, connVars, provider, client, memory_service, memory>>

Next ==
    \/ \E u \in Utterances : StartTurn(u)
    \/ ContextBuild
    \/ Round1
    \/ Dispatch
    \/ Round2
    \/ MemoryWrite
    \/ Respond
    \/ EndTurn

Spec == InitWeb /\ [][Next]_vars

\* The registry alone: no service is started and no turn runs.
WebNotStarted ==
    /\ provider = "openai"
    /\ client = None
    /\ memory_service = None
    /\ memory = <<>>
    /\ turns = 0
    /\ TurnIdle

NextRegistry == \E cls \in PluginClasses, ctorOk \in BOOLEAN : Register(cls, ctorOk)

\* A PluginManager was constructed; nothing else runs.
InitRegistry == RegistryEmpty /\ WebNotStarted /\ BotIdle /\ ConnIdle /\ UnitIdle

SpecRegistry == InitRegistry /\ [][NextRegistry]_vars

\* ------------------------------------------------------------ voice bot
\* Threshold of IntentClassifier.predict, 0.35 in hundredths
THRESHOLD == 35

\* Confidences (the largest class probability), in hundredths of [0, 1]
Confidences == {0, 10, 34, 35, 36, 50, 75, 99, 100}

\* pipeline.classes_: the labels of the training data
ClassifierLabels ==
    {"calculate", "chat", "date", "help", "reminder_list", "reminder_set",
     "search", "time", "weather", "wikipedia"}

\* predict with the threshold test written `<=`
PredictTieBelow(label, conf) ==
    IF conf <= THRESHOLD THEN <<"chat", conf>> ELSE <<label, conf>>

\* IntentClassifier.predict after argmax: (label, conf) is the most
\* probable class and its probability.
predict(label, conf) ==
    IF conf < THRESHOLD THEN <<"chat", conf>> ELSE <<label, conf>>

BotUtterances == {"what time is it", "tell me a joke"}

PluginError == "I encountered an error processing that command."
NotSureHow == "I'm not sure how to handle that yet."

Str(t) == [kind |-> "str", text |-> t]

\* The pair llm.chat returns: (response_text, None)
ChatTuple(t) == [kind |-> "tuple", text |-> t]

\* Texts of the model that contain an apostrophe: repr quotes them with "
HasApostrophe(t) ==
    t \in {GeminiApology, OpenAINotConnected, EmptyResponseApology, NotSureHow}

\* repr of a str or of None
Repr(t) ==
    IF t = None THEN "None"
    ELSE IF HasApostrophe(t) THEN "\"" \o t \o "\""
    ELSE "'" \o t \o "'"

\* f"{response}": str of a str, or of the tuple (response_text, None)
Format(r) ==
    IF r.kind = "str" THEN r.text ELSE "(" \o Repr(r.text) \o ", None)"

\* f"User: {text}\nBot: {response}"
BotExchange(u, r) == "User: " \o u \o "\nBot: " \o Format(r)

\* What plugin.handle answers
HandleText(cls, i) == cls \o ".handle(" \o i \o ")"

\* EchoBot.__init__: the services of the bot; self.memory is a
\* MemoryService of its own on the same persistent collection.
InitBot ==
    /\ LoadedRegistry
    /\ provider \in {"google", "openai"}
    /\ client \in (IF provider = "openai" THEN {"OpenAI", None} ELSE {None})
    /\ memory_service \in {"MemoryService", None}
    /\ memory \in StoredDocs
    /\ turns = 0
    /\ TurnIdle
    /\ BotIdle
    /\ ConnIdle
    /\ UnitIdle

\* start, lines 69-76: the wake word, speak("Yes?"), listen() hears u and
\* process_input(u) is called.
BotHear(u) ==
    /\ bot_pc = "waiting"
    /\ turns < MaxTurns
    /\ text' = u
    /\ spoken' = Append(spoken, Str("Yes?"))
    /\ bot_pc' = "classify"
    /\ UNCHANGED <<regVars, unitVars, webVars, connVars, raw, intent, confidence, response,
                   botLlmCalls, botMemLog, handleLog, loopErrors>>

\* process_input line 89: classifier.predict(text) returns.
BotClassify ==
    /\ bot_pc = "classify"
    /\ \E label \in ClassifierLabels, conf \in Confidences :
          /\ raw' = [label |-> label, conf |-> conf]
          /\ intent' = predict(label, conf)[1]
          /\ confidence' = predict(label, conf)[2]
    /\ bot_pc' = "route"
    /\ UNCHANGED <<regVars, unitVars, webVars, connVars, text, response, botLlmCalls, botMemLog,
                   handleLog, spoken, loopErrors>>

\* process_input line 89: classifier.predict(text) raises (no model file
\* and training fails, the pipeline fails). process_input has no handler:
\* the exception reaches the except clause of the main loop (lines 77-79),
\* which logs it and sleeps.
BotClassifyRaises ==
    /\ bot_pc = "classify"
    /\ loopErrors' = Append(loopErrors, "Voice Loop Error")
    /\ bot_pc' = "done"
    /\ UNCHANGED <<regVars, unitVars, webVars, connVars, text, raw, intent, confidence, response,
                   botLlmCalls, botMemLog, handleLog, spoken>>

\* process_input lines 102-110, intent == "chat": self.memory.query, then
\* LLMService.chat (its own memory query, get_response without tools, its
\* own memory write of a non-empty response_text, the pair it returns),
\* then self.memory.add of the formatted exchange.
BotChat ==
    /\ bot_pc = "route"
    /\ intent = "chat"
    /\ \E memories \in QueryResults(memory),
          relevant_memories \in (IF memory_service = None THEN {<<>>}
                                 ELSE QueryResults(memory)),
          addOk \in BOOLEAN, botAddOk \in BOOLEAN :
          LET msgs == <<[py |-> "dict", role |-> "system", content |-> relevant_memories]>>
                      \o (IF memories # <<>>
                          THEN <<[py |-> "dict", role |-> "system", content |-> memories]>>
                          ELSE <<>>)
                      \o <<[py |-> "dict", role |-> "user", content |-> text]>>
          IN \E r \in get_response(provider, client, msgs, <<>>) :
                LET stored == IF memory_service # None /\ r.content \notin {None, ""}
                              THEN <<FullExchange(text, r.content)>> ELSE <<>>
                    resp == ChatTuple(r.content)
                    exchange == <<BotExchange(text, resp)>>
                IN /\ response' = resp
                   /\ botLlmCalls' = Append(botLlmCalls, [tools |-> <<>>])
                   /\ botMemLog' = botMemLog \o stored \o exchange
                   /\ memory' = memory \o (IF addOk THEN stored ELSE <<>>)
                                        \o (IF botAddOk THEN exchange ELSE <<>>)
    /\ bot_pc' = "speak"
    /\ UNCHANGED <<regVars, unitVars, connVars, provider, client, memory_service, turns, pc,
                   user_text, memory_context, messages, tools, response_message,
                   response_text, idx, llmCalls, toolLog, memLog, sent, raised,
                   text, raw, intent, confidence, handleLog, spoken, loopErrors>>

\* process_input lines 112-122: a plugin is registered for the intent; its
\* handle answers or raises, and a raise becomes the error sentence.
BotPlugin ==
    /\ bot_pc = "route"
    /\ intent # "chat"
    /\ get_plugin_for_intent(intent) # NoPlugin
    /\ \E handleRaises \in BOOLEAN :
          LET plugin == get_plugin_for_intent(intent)
          IN /\ handleLog' = Append(handleLog,
                     [plugin |-> plugin, intent |-> intent, raised |-> handleRaises])
             /\ response' = IF handleRaises THEN Str(PluginError)
                            ELSE Str(HandleText(plugin.cls, intent))
    /\ bot_pc' = "speak"
    /\ UNCHANGED <<regVars, unitVars, webVars, connVars, text, raw, intent, confidence, botLlmCalls,
                   botMemLog, spoken, loopErrors>>

\* process_input lines 123-124: no plugin is registered for the intent.
BotNoPlugin ==
    /\ bot_pc = "route"
    /\ intent # "chat"
    /\ get_plugin_for_intent(intent) = NoPlugin
    /\ response' = Str(NotSureHow)
    /\ bot_pc' = "speak"
    /\ UNCHANGED <<regVars, unitVars, webVars, connVars, text, raw, intent, confidence, botLlmCalls,
                   botMemLog, handleLog, spoken, loopErrors>>

\* process_input lines 126-128: voice.speak(response)
BotSpeak ==
    /\ bot_pc = "speak"
    /\ spoken' = Append(spoken, response)
    /\ bot_pc' = "done"
    /\ UNCHANGED <<regVars, unitVars, webVars, connVars, text, raw, intent, confidence, response,
                   botLlmCalls, botMemLog, handleLog, loopErrors>>

\* process_input returned, or the loop caught its exception: next pass of
\* `while self.running`.
BotEndTurn ==
    /\ bot_pc = "done"
    /\ bot_pc' = "waiting"
    /\ turns' = turns + 1
    /\ text' = None
    /\ raw' = NoRaw
    /\ intent' = None
    /\ confidence' = 0
    /\ response' = NoResponse
    /\ botLlmCalls' = <<>>
    /\ botMemLog' = <<>>
    /\ handleLog' = <<>>
    /\ spoken' = <<>>
    /\ loopErrors' = <<>>
    /\ UNCHANGED <<regVars, unitVars, connVars, provider, client, memory_service, memory, pc,
                   user_text, memory_context, messages, tools, response_message,
                   response_text, idx, llmCalls, toolLog, memLog, sent, raised>>

NextBot ==
    \/ \E u \in BotUtterances : BotHear(u)
    \/ BotClassify
    \/ BotClassifyRaises
    \/ BotChat
    \/ BotPlugin
    \/ BotNoPlugin
    \/ BotSpeak
    \/ BotEndTurn

SpecBot == InitBot /\ [][NextBot]_vars

\* ------------------------------------------------ web backend connections
\* The sources of turns are the WebSocket clients. The backend's voice
\* thread is none: startup_event calls VoiceEngine(status_callback=...)
\* (line 237) and VoiceEngine.__init__ takes no argument, so the call raises
\* TypeError, voice_engine stays None and run_voice_loop is never started.

\* Parameters of VoiceEngine.__init__ (services/audio/voice_engine.py:11)
VoiceEngineInitParams == {"self"}

\* startup_event lines 235-244: the voice thread runs only when the
\* constructor call succeeded
VoiceThreadStarted == "status_callback" \in VoiceEngineInitParams

\* The endpoint that schedules the turn as a task and goes back to
\* receive_text without waiting for it.
ScheduleProcessUserRequest(ws) == "receive"

\* websocket_endpoint line 415, `await process_user_request(user_text)`:
\* the endpoint is suspended until the coroutine is over.
CallProcessUserRequest(ws) == "in_turn"

\* ConnectionManager.disconnect: active_connections.remove(websocket)
Disconnect(ac, ws) == SelectSeq(ac, LAMBDA x : x # ws)

\* A process_user_request coroutine that has just been called
NewRequest(ws, u) ==
    [src |-> ws, pc |-> "context", user_text |-> u, memory_context |-> <<>>,
     response_message |-> NoMessage, response_text |-> None, results |-> <<>>,
     llmCalls |-> 0, memLog |-> <<>>, sent |-> <<>>, raised |-> None,
     closed_mid_turn |-> FALSE]

\* The model results drawn in SpecConn: a text, None or a failure text,
\* with no tool call or the one call search_wikipedia(query="Ada Lovelace")
ConnDrawn ==
    {Message(c, tcs) :
        c \in LLMTexts \cup {None, GeminiApology, OpenAINotConnected, OpenAIError},
        tcs \in {<<>>, <<ToolCall(CallId(1), "search_wikipedia", ValidPayload)>>}}

\* Those of them get_response can return
ConnResponses(prov, cl, msgs, tls) == ConnDrawn \cap get_response(prov, cl, msgs, tls)

ConnUtterances == {"who is Ada Lovelace"}

\* Lines 263-266: the messages of round 1
RequestMessages(rq) ==
    <<[py |-> "dict", role |-> "system", content |-> rq.memory_context],
      [py |-> "dict", role |-> "user", content |-> rq.user_text]>>

\* Lines 291-308: the messages of round 2
RequestMessagesRound2(rq) ==
    RequestMessages(rq) \o <<rq.response_message>>
    \o [k \in 1..Len(rq.results) |->
           ToolMessage(rq.response_message.tool_calls[k],
                       rq.response_message.tool_calls[k].name, rq.results[k])]

\* External calls that no timeout bounds: get_response (generate_content
\* and chat.completions.create are called without one, and the to_thread
\* await has no wait_for) and the Wikipedia and web-search tools; the
\* weather tool passes timeout=5 to every request.
CanHang(tool_name) == tool_name # "get_weather"

\* Module import of web/backend/app.py with every shipped plugin loaded, the
\* OpenAI client and a memory service available; no client is connected.
InitConn ==
    /\ plugins = LoadPlugins(EmptyRegistry, <<>>, LoadOrder, {}).reg.plugins
    /\ intent_map = LoadPlugins(EmptyRegistry, <<>>, LoadOrder, {}).reg.intent_map
    /\ regLog = LoadPlugins(EmptyRegistry, <<>>, LoadOrder, {}).log
    /\ provider = "openai"
    /\ client = "OpenAI"
    /\ memory_service = "MemoryService"
    /\ memory = <<>>
    /\ turns = 0
    /\ TurnIdle
    /\ BotIdle
    /\ ConnIdle
    /\ UnitIdle

\* websocket_endpoint line 410: manager.connect accepts the socket and
\* appends it; the endpoint goes to receive_text.
Connect(ws) ==
    /\ sock[ws] = "new"
    /\ sock' = [sock EXCEPT ![ws] = "open"]
    /\ active_connections' = Append(active_connections, ws)
    /\ handler' = [handler EXCEPT ![ws] = "receive"]
    /\ UNCHANGED <<regVars, unitVars, webVars, botVars, reqs>>

\* The client closes its socket. The endpoint notices at its next
\* receive_text only; a request it is awaiting goes on (closed_mid_turn
\* records that its client went away).
ClientClose(ws) ==
    /\ sock[ws] = "open"
    /\ sock' = [sock EXCEPT ![ws] = "closed"]
    /\ reqs' = [k \in 1..Len(reqs) |->
                   IF reqs[k].src = ws /\ reqs[k].pc # "returned"
                   THEN [reqs[k] EXCEPT !.closed_mid_turn = TRUE]
                   ELSE reqs[k]]
    /\ UNCHANGED <<regVars, unitVars, webVars, botVars, active_connections, handler>>

\* Lines 413, 417-419: receive_text raises WebSocketDisconnect on a closed
\* socket; the except clause removes the socket and the endpoint returns.
ReceiveDisconnect(ws) ==
    /\ handler[ws] = "receive"
    /\ sock[ws] = "closed"
    /\ active_connections' = Disconnect(active_connections, ws)
    /\ handler' = [handler EXCEPT ![ws] = "returned"]
    /\ UNCHANGED <<regVars, unitVars, webVars, botVars, sock, reqs>>

\* Lines 413-415: receive_text returns a text and process_user_request is
\* called with it; its first segment runs up to the memory query.
Receive(ws, u) ==
    /\ handler[ws] = "receive"
    /\ sock[ws] = "open"
    /\ Len(reqs) < MaxConnTurns
    /\ reqs' = Append(reqs, NewRequest(ws, u))
    /\ handler' = [handler EXCEPT ![ws] = CallProcessUserRequest(ws)]
    /\ UNCHANGED <<regVars, unitVars, webVars, botVars, active_connections, sock>>

\* Request i is over with record rq. An exception leaves
\* process_user_request and reaches the except clause of websocket_endpoint
\* (lines 417-419): the socket is removed and the endpoint returns, which
\* closes the socket. A normal return takes the endpoint to receive_text.
\* The locals of the coroutine are gone; the record keeps what it did.
RequestOver(i, rq) ==
    /\ reqs' = [reqs EXCEPT ![i] =
                    [NewRequest(rq.src, rq.user_text) EXCEPT
                        !.pc = "returned", !.llmCalls = rq.llmCalls,
                        !.memLog = rq.memLog, !.sent = rq.sent,
                        !.raised = rq.raised,
                        !.closed_mid_turn = rq.closed_mid_turn]]
    /\ IF rq.raised # None
       THEN /\ active_connections' = Disconnect(active_connections, rq.src)
            /\ handler' = [handler EXCEPT ![rq.src] = "returned"]
            /\ sock' = [sock EXCEPT ![rq.src] = "closed"]
       ELSE /\ handler' = [handler EXCEPT ![rq.src] = "receive"]
            /\ UNCHANGED <<active_connections, sock>>

\* ConnectionManager.broadcast: one send_text per active connection
Broadcast(ac, payload) == [k \in 1..Len(ac) |-> [to |-> ac[k], payload |-> payload]]

\* Lines 319-354, run without suspension once the final text is known: the
\* empty-response replacement, memory_service.add, then the read of
\* tts_engine.is_available, which raises AttributeError (otherwise the
\* payload is broadcast).
Deliver(i, rq, t) ==
    LET final_text == IF t = "" THEN EmptyResponseApology ELSE t
        exchange == FullExchange(rq.user_text, final_text)
        written == [rq EXCEPT !.response_text = final_text,
                              !.memLog = IF memory_service # None
                                         THEN Append(rq.memLog, exchange)
                                         ELSE rq.memLog]
    IN /\ IF memory_service # None
          THEN \E addOk \in BOOLEAN :
                  memory' = IF addOk THEN Append(memory, exchange) ELSE memory
          ELSE UNCHANGED memory
       /\ IF "is_available" \notin TTSEngineAttrs
          THEN RequestOver(i, [written EXCEPT !.raised = "AttributeError"])
          ELSE RequestOver(i, [written EXCEPT
                   !.sent = Broadcast(active_connections,
                                      [type |-> "audio", text |-> final_text])])

\* Lines 256-273: the memory query returns; the messages and the tool
\* schemas are built and round 1 is called.
ConnContext(i) ==
    /\ i <= Len(reqs)
    /\ reqs[i].pc = "context"
    /\ \E q \in QueryResults(memory) :
          reqs' = [reqs EXCEPT ![i] = [reqs[i] EXCEPT !.memory_context = q,
                                                      !.pc = "round1"]]
    /\ UNCHANGED <<regVars, unitVars, webVars, botVars, active_connections, sock, handler>>

\* Lines 273-301: round 1 returns. The log line raises TypeError on content
\* None; with tool calls the first execute_tool is called; without, the
\* request runs to its end.
ConnRound1(i) ==
    /\ i <= Len(reqs)
    /\ reqs[i].pc = "round1"
    /\ \E r \in ConnResponses(provider, client, RequestMessages(reqs[i]),
                              get_tool_definitions(plugins)) :
          LET rq == [reqs[i] EXCEPT !.response_message = r, !.llmCalls = 1]
          IN IF IsStr(r)
             THEN /\ RequestOver(i, [rq EXCEPT !.sent =
                         Broadcast(active_connections,
                                   [type |-> "error", text |-> r.content])])
                  /\ UNCHANGED memory
             ELSE IF r.content = None
             THEN /\ RequestOver(i, [rq EXCEPT !.raised = "TypeError"])
                  /\ UNCHANGED memory
             ELSE IF r.tool_calls # <<>>
             THEN /\ reqs' = [reqs EXCEPT ![i] =
                                 [rq EXCEPT !.response_text = r.content,
                                            !.pc = "dispatch"]]
                  /\ UNCHANGED <<memory, active_connections, sock, handler>>
             ELSE Deliver(i, rq, r.content)
    /\ UNCHANGED <<regVars, unitVars, botVars, provider, client, memory_service, pc, user_text,
                   memory_context, messages, tools, response_message, response_text,
                   idx, llmCalls, toolLog, memLog, sent, raised, turns>>

\* Lines 293-312: one execute_tool returns; its tool message is appended
\* and the next tool, or round 2, is called.
ConnDispatch(i) ==
    /\ i <= Len(reqs)
    /\ reqs[i].pc = "dispatch"
    /\ \E pluginRaises \in BOOLEAN :
          LET tool_call == reqs[i].response_message.tool_calls[Len(reqs[i].results) + 1]
              result == execute_tool(plugins, tool_call.name,
                                     ParseArguments(tool_call.arguments), pluginRaises)
              results == Append(reqs[i].results, result.value)
          IN /\ reqs' = [reqs EXCEPT ![i] =
                         [reqs[i] EXCEPT
                             !.results = results,
                             !.pc = IF Len(results) = Len(reqs[i].response_message.tool_calls)
                                    THEN "round2" ELSE "dispatch"]]
             /\ plugins' = PluginsAfterExecuteTool(plugins, tool_call.name)
    /\ UNCHANGED <<intent_map, regLog, unitVars, webVars, botVars, active_connections,
                   sock, handler>>

\* Lines 312-354: round 2 returns; the log line raises TypeError on content
\* None, otherwise the request runs to its end.
ConnRound2(i) ==
    /\ i <= Len(reqs)
    /\ reqs[i].pc = "round2"
    /\ \E final_response \in ConnResponses(provider, client,
                                           RequestMessagesRound2(reqs[i]), <<>>) :
          LET rq == [reqs[i] EXCEPT !.llmCalls = 2]
          IN IF final_response.content = None
             THEN /\ RequestOver(i, [rq EXCEPT !.raised = "TypeError"])
                  /\ UNCHANGED memory
             ELSE Deliver(i, rq, final_response.content)
    /\ UNCHANGED <<regVars, unitVars, botVars, provider, client, memory_service, pc, user_text,
                   memory_context, messages, tools, response_message, response_text,
                   idx, llmCalls, toolLog, memLog, sent, raised, turns>>

\* The external call request i awaits never returns: the get_response of a
\* round, or the execute_tool of a tool without a timeout. Nothing ends
\* the await (lines 273, 301, 312).
ConnHang(i) ==
    /\ i <= Len(reqs)
    /\ \/ reqs[i].pc \in {"round1", "round2"}
       \/ /\ reqs[i].pc = "dispatch"
          /\ CanHang(reqs[i].response_message.tool_calls[Len(reqs[i].results) + 1].name)
    /\ reqs' = [reqs EXCEPT ![i] = [reqs[i] EXCEPT !.pc = "hung"]]
    /\ UNCHANGED <<regVars, unitVars, webVars, botVars, active_connections, sock, handler>>

NextConn ==
    \/ \E ws \in Conns : Connect(ws)
    \/ \E ws \in Conns : ClientClose(ws)
    \/ \E ws \in Conns : ReceiveDisconnect(ws)
    \/ \E ws \in Conns, u \in ConnUtterances : Receive(ws, u)
    \/ \E i \in 1..MaxConnTurns : ConnContext(i)
    \/ \E i \in 1..MaxConnTurns : ConnRound1(i)
    \/ \E i \in 1..MaxConnTurns : ConnDispatch(i)
    \/ \E i \in 1..MaxConnTurns : ConnRound2(i)
    \/ \E i \in 1..MaxConnTurns : ConnHang(i)

\* The event loop resumes every coroutine whose awaited call has returned,
\* and every awaited call that is not hung returns.
FairConn ==
    \A i \in 1..MaxConnTurns :
        /\ WF_vars(ConnContext(i))
        /\ WF_vars(ConnRound1(i))
        /\ WF_vars(ConnDispatch(i))
        /\ WF_vars(ConnRound2(i))

SpecConn == InitConn /\ [][NextConn]_vars /\ FairConn

\* ---------------------------------------------- EchoBot._extract_entities
\* A text is its sequence of words, separated by single spaces (what the
\* speech recogniser returns); a text value of an entity is one too.
MaxWords == 3

Words == {"in", "to", "at", "Who", "is", "search", "calculate", "Paris"}

Texts == UNION {[1..n -> Words] : n \in 1..MaxWords}

EntityIntents ==
    {"weather", "search", "wikipedia", "calculate", "reminder_set", "time"}

\* str.lower() on one word
LowerWord(w) ==
    CASE w = "Who" -> "who"
      [] w = "Paris" -> "paris"
      [] OTHER -> w

\* text.lower()
Lower(t) == [k \in 1..Len(t) |-> LowerWord(t[k])]

\* `" w " in t`: the word w with a space on both sides
Contains(t, w) == \E k \in 2..(Len(t) - 1) : t[k] = w

\* t.find(" w "): the first word w that has a space on both sides
Find(t, w) == CHOOSE k \in 2..(Len(t) - 1) :
                  t[k] = w /\ \A j \in 2..(k - 1) : t[j] # w

\* t.rfind(" w ")
RFind(t, w) == CHOOSE k \in 2..(Len(t) - 1) :
                   t[k] = w /\ \A j \in (k + 1)..(Len(t) - 1) : t[j] # w

\* t.split(" w "): the matches are taken left to right and do not overlap,
\* so a w right after a separator belongs to the next piece
RECURSIVE Split(_, _)
Split(t, w) ==
    IF ~Contains(t, w) THEN <<t>>
    ELSE <<SubSeq(t, 1, Find(t, w) - 1)>>
             \o Split(SubSeq(t, Find(t, w) + 1, Len(t)), w)

\* t.split(" w ", 1)
SplitOnce(t, w) ==
    IF ~Contains(t, w) THEN <<t>>
    ELSE <<SubSeq(t, 1, Find(t, w) - 1), SubSeq(t, Find(t, w) + 1, Len(t))>>

\* t.rsplit(" w ", 1)
RSplitOnce(t, w) ==
    IF ~Contains(t, w) THEN <<t>>
    ELSE <<SubSeq(t, 1, RFind(t, w) - 1), SubSeq(t, RFind(t, w) + 1, Len(t))>>

\* t.startswith(p) for a prefix p that ends in a space: the words of p and
\* at least one more word
StartsWith(t, p) == Len(t) > Len(p) /\ SubSeq(t, 1, Len(p)) = p

\* t[len(p):].strip()
AfterPrefix(t, p) == SubSeq(t, Len(p) + 1, Len(t))

\* The prefix lists, lines 144 and 152
SearchPrefixes ==
    << <<"search", "for">>, <<"search">>, <<"who", "is">>, <<"what", "is">>,
       <<"tell", "me", "about">> >>

CalculatePrefixes == << <<"calculate">>, <<"what", "is">> >>

\* lines 140-141; seq[1] on a one-piece split is an IndexError
WeatherEntitiesUnguarded(t) ==
    LET pieces == Split(t, "in")
    IN  IF Len(pieces) < 2 THEN Raised("IndexError")
        ELSE Returned(DictSet(EmptyDict, "location", pieces[2]))

WeatherEntities(t) ==
    IF Contains(t, "in") THEN WeatherEntitiesUnguarded(t)
    ELSE Returned(EmptyDict)

\* lines 142-147, without the fallback of lines 148-149
SearchEntitiesNoFallback(t) ==
    LET hits == {k \in 1..Len(SearchPrefixes) : StartsWith(t, SearchPrefixes[k])}
        first == CHOOSE k \in hits : \A j \in hits : k <= j
    IN  IF hits = {} THEN Returned(EmptyDict)
        ELSE Returned(DictSet(EmptyDict, "query", AfterPrefix(t, SearchPrefixes[first])))

\* lines 142-149: the first prefix that matches ends the loop; with no
\* match the whole text is the query
SearchEntities(t) ==
    IF "query" \in DOMAIN SearchEntitiesNoFallback(t).value
    THEN SearchEntitiesNoFallback(t)
    ELSE Returned(DictSet(EmptyDict, "query", t))

\* lines 150-154: the loop has no break, a later match overwrites
RECURSIVE CalculateLoop(_, _, _)
CalculateLoop(t, k, ents) ==
    IF k > Len(CalculatePrefixes) THEN ents
    ELSE CalculateLoop(t, k + 1,
             IF StartsWith(t, CalculatePrefixes[k])
             THEN DictSet(ents, "expression", AfterPrefix(t, CalculatePrefixes[k]))
             ELSE ents)

CalculateEntities(t) == Returned(CalculateLoop(t, 1, EmptyDict))

\* lines 155-164; unpacking into (task, time_val) needs exactly two parts
ReminderEntities(t) ==
    IF ~Contains(t, "to") THEN Returned(EmptyDict)
    ELSE LET parts == SplitOnce(t, "to")[2]
         IN  IF Contains(parts, "at")
             THEN IF Len(RSplitOnce(parts, "at")) # 2 THEN Raised("ValueError")
                  ELSE Returned(DictSet(DictSet(EmptyDict,
                                    "task", RSplitOnce(parts, "at")[1]),
                                    "time", RSplitOnce(parts, "at")[2]))
             ELSE Returned(DictSet(EmptyDict, "task", parts))

\* EchoBot._extract_entities(text, intent)
_extract_entities(t, i) ==
    LET low == Lower(t)
    IN  CASE i = "weather" -> WeatherEntities(low)
          [] i \in {"search", "wikipedia"} -> SearchEntities(low)
          [] i = "calculate" -> CalculateEntities(low)
          [] i = "reminder_set" -> ReminderEntities(low)
          [] OTHER -> Returned(EmptyDict)

\* _extract_entities is called (process_input line 117) with some text and
\* some intent; every shipped plugin is loaded.
InitEntities ==
    /\ plugins = LoadPlugins(EmptyRegistry, <<>>, LoadOrder, {}).reg.plugins
    /\ intent_map = LoadPlugins(EmptyRegistry, <<>>, LoadOrder, {}).reg.intent_map
    /\ regLog = LoadPlugins(EmptyRegistry, <<>>, LoadOrder, {}).log
    /\ WebNotStarted /\ ConnIdle
    /\ bot_pc = "route"
    /\ text \in Texts
    /\ intent \in EntityIntents
    /\ raw = NoRaw
    /\ confidence = 0
    /\ response = NoResponse
    /\ botLlmCalls = <<>>
    /\ botMemLog = <<>>
    /\ handleLog = <<>>
    /\ spoken = <<>>
    /\ loopErrors = <<>>
    /\ entities = None
    /\ LoadIdle /\ RemindersIdle /\ SettingsIdle

\* process_input line 117: entities = self._extract_entities(text, intent)
ExtractEntities ==
    /\ bot_pc = "route"
    /\ entities' = _extract_entities(text, intent)
    /\ bot_pc' = "handle"
    /\ UNCHANGED <<regVars, webVars, connVars, text, raw, intent, confidence,
                   response, botLlmCalls, botMemLog, handleLog, spoken, loopErrors,
                   loadVars, remVars, setVars>>

NextEntities == ExtractEntities

SpecEntities == InitEntities /\ [][NextEntities]_vars

\* ------------------------------------------- PluginManager.load_plugins
\* Files of the plugin directory one run of load_plugins visits
MaxFiles == 3

\* The shipped plugin files and a drop-in file, each with its Plugin subclass
PluginFiles ==
    {"help.py", "calculator.py", "reminders.py", "search.py", "time_plugin.py",
     "weather.py", "wikipedia.py", "alarm.py"}

FileClass(file) ==
    CASE file = "help.py"        -> "HelpPlugin"
      [] file = "calculator.py"  -> "CalculatorPlugin"
      [] file = "reminders.py"   -> "ReminderPlugin"
      [] file = "search.py"      -> "WebSearchPlugin"
      [] file = "time_plugin.py" -> "TimePlugin"
      [] file = "weather.py"     -> "WeatherPlugin"
      [] file = "wikipedia.py"   -> "WikipediaPlugin"
      [] file = "alarm.py"       -> "AlarmPlugin"

\* os.walk yields the files in an order the file system decides
Walks ==
    {w \in [1..MaxFiles -> PluginFiles] : \A j, k \in 1..MaxFiles : w[j] = w[k] => j = k}

\* PluginManager(); load_plugins starts its walk
InitLoad ==
    /\ RegistryEmpty /\ WebNotStarted /\ BotIdle /\ ConnIdle
    /\ EntitiesIdle /\ RemindersIdle /\ SettingsIdle
    /\ walk \in Walks
    /\ loadLog = <<>>

\* _load_plugin_from_file(file): the import raises (importOk = FALSE) and
\* the except clause logs it, or the Plugin subclass of the module is handed
\* to _register_plugin, which never raises; the walk goes on either way.
LoadFile ==
    /\ walk # <<>>
    /\ \E importOk \in BOOLEAN, ctorOk \in BOOLEAN :
          LET cls == FileClass(Head(walk))
              before == [plugins |-> plugins, intent_map |-> intent_map]
              after == IF importOk
                       THEN RegisterPlugin(before, cls, Len(regLog) + 1, ctorOk)
                       ELSE before
          IN /\ plugins' = after.plugins
             /\ intent_map' = after.intent_map
             /\ regLog' = IF importOk
                          THEN Append(regLog, [cls |-> cls,
                                               ok |-> ~RegistrationRaises(cls, ctorOk)])
                          ELSE regLog
             /\ loadLog' = Append(loadLog,
                    [file |-> Head(walk), cls |-> cls, imported |-> importOk,
                     raised |-> importOk /\ RegistrationRaises(cls, ctorOk),
                     before |-> before, after |-> after])
    /\ walk' = Tail(walk)
    /\ UNCHANGED <<webVars, botVars, connVars, entVars, remVars, setVars>>

NextLoad == LoadFile

SpecLoad == InitLoad /\ [][NextLoad]_vars

\* ------------------------------------------------------- ReminderPlugin
MaxReminders == 2   \* rows add_reminder inserts
MaxTime == 3        \* hours the clock runs

\* reminder_time NULL; the times of reminders are hours after hour 0
NoTime == 0

\* A row of the reminders table; its id is its position
Reminder(reminder_time) == [reminder_time |-> reminder_time, triggered |-> FALSE]

\* _schedule_job(r_id, task, dt): a DateTrigger job of the scheduler
Job(r_id, dt) == [id |-> r_id, dt |-> dt]

\* SELECT * FROM reminders WHERE triggered = 0
ActiveReminders(rows) == {k \in 1..Len(rows) : ~rows[k].triggered}

\* _load_reminders: the jobs scheduled for the active rows, `if dt > datetime.now()`
_load_reminders(rows, t) ==
    {Job(k, rows[k].reminder_time) :
        k \in {j \in ActiveReminders(rows) :
                  rows[j].reminder_time # NoTime /\ rows[j].reminder_time > t}}

\* ReminderPlugin() ran on an empty database; nothing else runs
InitReminders ==
    /\ RegistryEmpty /\ WebNotStarted /\ BotIdle /\ ConnIdle
    /\ EntitiesIdle /\ LoadIdle /\ SettingsIdle
    /\ RemindersIdle

RemindersFrame == UNCHANGED <<regVars, webVars, botVars, connVars, entVars, loadVars, setVars>>

\* add_reminder(task, time_str): _parse_time gives None or a time after
\* now; the row is inserted and, with a time, its job is scheduled.
AddReminder ==
    /\ running
    /\ Len(reminders) < MaxReminders
    /\ \E reminder_time \in {NoTime} \cup ((now + 1)..MaxTime) :
          /\ reminders' = Append(reminders, Reminder(reminder_time))
          /\ jobs' = IF reminder_time = NoTime THEN jobs
                     ELSE jobs \cup {Job(Len(reminders) + 1, reminder_time)}
    /\ UNCHANGED <<now, running>>
    /\ RemindersFrame

\* The scheduler runs a job at its run date: _trigger_reminder(r_id, task)
\* sets triggered = 1 on the row.
TriggerReminder ==
    /\ running
    /\ \E job \in jobs :
          /\ job.dt <= now
          /\ reminders' = [reminders EXCEPT ![job.id].triggered = TRUE]
          /\ jobs' = jobs \ {job}
    /\ UNCHANGED <<now, running>>
    /\ RemindersFrame

\* An hour passes; a running scheduler has run the jobs that were due.
Tick ==
    /\ now < MaxTime
    /\ running => \A job \in jobs : job.dt > now
    /\ now' = now + 1
    /\ UNCHANGED <<reminders, jobs, running>>
    /\ RemindersFrame

\* The process ends; the jobs of the in-memory scheduler go with it, the
\* rows stay in the database.
StopPlugin ==
    /\ running
    /\ running' = FALSE
    /\ jobs' = {}
    /\ UNCHANGED <<now, reminders>>
    /\ RemindersFrame

\* ReminderPlugin() after a restart: __init__ calls _load_reminders
RestartPlugin ==
    /\ ~running
    /\ running' = TRUE
    /\ jobs' = _load_reminders(reminders, now)
    /\ UNCHANGED <<now, reminders>>
    /\ RemindersFrame

NextReminders ==
    \/ AddReminder
    \/ TriggerReminder
    \/ Tick
    \/ StopPlugin
    \/ RestartPlugin

\* Time passes, a running scheduler runs its due jobs, and a stopped plugin
\* is started again.
FairReminders ==
    /\ WF_vars(Tick)
    /\ WF_vars(TriggerReminder)
    /\ WF_vars(RestartPlugin)

SpecReminders == InitReminders /\ [][NextReminders]_vars /\ FairReminders

\* --------------------------------------------- ConfigLoader, /api/settings
MaxRequests == 2    \* requests to /api/settings

\* The environment variables _inject_env_vars reads API keys from
KeyVars ==
    {"GEMINI_API_KEY", "GOOGLE_API_KEY", "OPENAI_API_KEY", "ELEVENLABS_API_KEY",
     "PORCUPINE_ACCESS_KEY", "OPENWEATHER_API_KEY"}

\* The secret value a key variable holds when it is set
KeyValue(var) == "value of " \o var

\* os.environ restricted to the key variables: any of them may be set
Environs == {[var \in S |-> KeyValue(var)] : S \in SUBSET KeyVars}

\* os.getenv(var)
GetEnv(env, var) == DictGet(env, var, None)

\* cls._settings.setdefault(section, {})[key] = value
SetIn(d, section, key, value) ==
    DictSet(d, section, DictSet(DictGet(d, section, EmptyDict), key, value))

\* One `if os.getenv(var): setdefault(section, {})[key] = os.getenv(var)`
Inject(d, env, var, section, key) ==
    IF GetEnv(env, var) # None THEN SetIn(d, section, key, GetEnv(env, var)) ELSE d

\* lines 37-47: gemini_key = GEMINI_API_KEY or GOOGLE_API_KEY
InjectGemini(d, env) ==
    LET gemini_key == IF GetEnv(env, "GEMINI_API_KEY") # None
                      THEN GetEnv(env, "GEMINI_API_KEY")
                      ELSE GetEnv(env, "GOOGLE_API_KEY")
    IN  IF gemini_key # None THEN SetIn(d, "ai", "google_api_key", gemini_key) ELSE d

\* lines 53-61 with GEMINI_MODEL unset: the default model, when there is an
\* "ai" section without llm_model
InjectModel(d) ==
    IF "ai" \in DOMAIN d /\ "llm_model" \notin DOMAIN d["ai"]
    THEN SetIn(d, "ai", "llm_model", "gemini-2.0-flash")
    ELSE d

\* ConfigLoader._inject_env_vars on the settings d
_inject_env_vars(d, env) ==
    LET d1 == InjectGemini(d, env)
        d2 == Inject(d1, env, "OPENAI_API_KEY", "ai", "openai_api_key")
        d3 == Inject(d2, env, "ELEVENLABS_API_KEY", "voice", "elevenlabs_api_key")
        d4 == InjectModel(d3)
        d5 == Inject(d4, env, "PORCUPINE_ACCESS_KEY", "voice", "porcupine_access_key")
    IN  Inject(d5, env, "OPENWEATHER_API_KEY", "plugins", "openweather_api_key")

\* ConfigLoader.load_settings(): no settings.yaml is found, _settings stays
\* {} and the environment is injected
load_settings(env) == _inject_env_vars(EmptyDict, env)

\* Keys a client submits to POST /api/settings; "" is the field's default
SubmittedKeys == {"", "AIza-submitted"}

\* The values of the leaves of a settings dict
Leaves(d) == UNION {{d[section][key] : key \in DOMAIN d[section]} : section \in DOMAIN d}

\* get_settings: return ConfigLoader._settings
GetSettingsBody(d) == Leaves(d)

\* update_settings: return {"status": "success", "settings": settings}; the
\* redacted copy settings_safe only goes to the log
UpdateSettingsBody(google_api_key) == {"success", google_api_key}

\* Import of config/loader.py: ConfigLoader.load_settings()
InitSettings ==
    /\ RegistryEmpty /\ WebNotStarted /\ BotIdle /\ ConnIdle
    /\ EntitiesIdle /\ LoadIdle /\ RemindersIdle
    /\ environ \in Environs
    /\ _settings = load_settings(environ)
    /\ responses = <<>>

SettingsFrame ==
    UNCHANGED <<regVars, webVars, botVars, connVars, entVars, loadVars, remVars,
                environ, _settings>>

\* GET /api/settings
GetSettings ==
    /\ Len(responses) < MaxRequests
    /\ responses' = Append(responses,
           [route |-> "GET", submitted |-> "", body |-> GetSettingsBody(_settings)])
    /\ SettingsFrame

\* POST /api/settings with a google_api_key
UpdateSettings ==
    /\ Len(responses) < MaxRequests
    /\ \E google_api_key \in SubmittedKeys :
          responses' = Append(responses,
              [route |-> "POST", submitted |-> google_api_key,
               body |-> UpdateSettingsBody(google_api_key)])
    /\ SettingsFrame

NextSettings ==
    \/ GetSettings
    \/ UpdateSettings

SpecSettings == InitSettings /\ [][NextSettings]_vars

\* ================================================================ claims
\* Helpers over the logs of a turn
Round2Calls == Cardinality({k \in 1..Len(llmCalls) : llmCalls[k].round = 2})

ToolMessages == SelectSeq(messages, LAMBDA m : m.role = "tool")

Delivered(t) ==
    \E k \in 1..Len(sent) : sent[k].type = "audio" /\ sent[k].text = t

\* Texts get_response returns when the provider call raised
ProviderFailureTexts == {GeminiApology, OpenAIError}

\* C1: whenever round 1 returns a non-empty list of tool invocations, the
\* turn goes through tool dispatch and round 2 and ends by delivering a
\* final answer text to the client, never in an exception that leaves
\* process_user_request.
C1_ToolTurnDeliversAnswer ==
    (pc = "done" /\ response_message.tool_calls # <<>>) =>
        /\ raised = None
        /\ Len(toolLog) = Len(response_message.tool_calls)
        /\ Round2Calls = 1
        /\ Delivered(response_text)

\* C2: in every turn the language model is invoked at most twice; round 2
\* is invoked exactly once if round 1 returned tool invocations and not at
\* all otherwise; round 2 gets no tool schemas; no more tools are
\* dispatched than round 1 asked for.
C2_RoundTwoExactlyOnceIffToolCalls ==
    pc = "done" =>
        /\ Len(llmCalls) <= 2
        /\ (response_message.tool_calls # <<>> => Round2Calls = 1)
        /\ (response_message.tool_calls = <<>> => Round2Calls = 0)
        /\ \A k \in 1..Len(llmCalls) :
              llmCalls[k].round = 2 => llmCalls[k].tools = <<>>
        /\ Len(toolLog) <= Len(response_message.tool_calls)

\* C3: when the provider call raises in round 1, the turn's answer is the
\* fixed apology string, no round 2 is performed and nothing is handed to
\* the memory service.
C3_ProviderFailureNoMemoryWrite ==
    (pc \in {"respond", "done"} /\ Len(llmCalls) >= 1
        /\ response_message.content \in ProviderFailureTexts) =>
        /\ response_text = response_message.content
        /\ Round2Calls = 0
        /\ memLog = <<>>

\* Error strings execute_tool builds for a tool name
ToolErrorStrings(tool_name) ==
    {ToolNotFound(tool_name)} \cup
    {"Error executing tool " \o tool_name \o ": " \o e :
        e \in {"plugin failure", "'list' object has no attribute 'get'"}}

\* The plugin name whose presence makes execute_tool call a plugin
ProviderOf(tool_name) ==
    CASE tool_name = "get_weather"      -> "Weather"
      [] tool_name = "search_wikipedia" -> "Wikipedia"
      [] tool_name = "web_search"       -> "WebSearch"
      [] OTHER                          -> None

\* C4: execute_tool returns a text for every tool name and argument
\* object; when the plugin method raises, or no loaded plugin provides the
\* tool, the result is an error string and no exception leaves execute_tool.
C4_ExecuteToolAlwaysReturnsText ==
    \A k \in 1..Len(toolLog) :
        LET e == toolLog[k]
        IN /\ ~e.result.raised
           /\ e.result.value \in STRING
           /\ (e.bodyRaised \/ ProviderOf(e.name) \notin e.loaded)
                 => e.result.value \in ToolErrorStrings(e.name)

\* C4 witness: in one turn a plugin method raised and another tool had no
\* loaded plugin, and both calls returned.
C4_Witness ==
    /\ Len(toolLog) = 2
    /\ toolLog[1].bodyRaised /\ toolLog[1].arguments.kind = "dict"
    /\ ProviderOf(toolLog[2].name) \notin toolLog[2].loaded
    /\ pc = "round2"

\* C5: in tool dispatch execute_tool is called once per invocation of the
\* round-1 result, in the order received, and one tool-result message per
\* invocation is appended in that order; a failing tool or a malformed
\* payload (which becomes the empty argument object) neither skips nor
\* aborts the remaining invocations.
C5_DispatchInOrder ==
    LET tcs == response_message.tool_calls
        tms == ToolMessages
    IN /\ Len(toolLog) <= Len(tcs)
       /\ Len(tms) = Len(toolLog)
       /\ \A k \in 1..Len(toolLog) :
             /\ toolLog[k].id = tcs[k].id
             /\ toolLog[k].name = tcs[k].name
             /\ toolLog[k].payload = tcs[k].arguments
             /\ (~JsonLoads(tcs[k].arguments).ok
                    => toolLog[k].arguments = JsonDict(EmptyDict))
             /\ tms[k].tool_call_id = tcs[k].id
             /\ tms[k].name = tcs[k].name
             /\ tms[k].content = toolLog[k].result.value
       /\ (pc \in {"round2", "memory_write", "respond", "done"} /\ toolLog # <<>>)
             => Len(toolLog) = Len(tcs)
       /\ pc = "round2" => Len(toolLog) = Len(tcs)

\* C5 witness: dispatch of two invocations finished although the first
\* tool failed and the second carried a malformed payload.
C5_Witness ==
    /\ pc = "round2"
    /\ Len(response_message.tool_calls) = 2
    /\ Len(toolLog) = 2
    /\ toolLog[1].bodyRaised
    /\ toolLog[2].payload = MalformedPayload
    /\ toolLog[1].name # toolLog[2].name

\* C9: every plugin instance stored in the intent map is also the instance
\* stored in the name map under its own name.
C9_IntentMapWithinNameMap ==
    \A i \in DOMAIN intent_map :
        /\ ClassName(intent_map[i].cls) \in DOMAIN plugins
        /\ plugins[ClassName(intent_map[i].cls)] = intent_map[i]

\* Successful registrations that declared intent i, by position in the log
Declarers(i) ==
    {k \in 1..Len(regLog) : regLog[k].ok /\ i \in Range(ClassIntents(regLog[k].cls))}

Max(S) == CHOOSE x \in S : \A y \in S : y <= x

\* C10: get_plugin_for_intent(i) is the most recently registered plugin
\* that declares i, and is None exactly when no registered plugin declared i.
C10_LastRegistrationWins ==
    \A i \in Intents \cup {"chat"} :
        get_plugin_for_intent(i) =
            IF Declarers(i) = {} THEN NoPlugin
            ELSE Instance(Max(Declarers(i)), regLog[Max(Declarers(i))].cls)

\* C10 witness: two different plugins declared "weather", the later one
\* answers, and no plugin declared "help".
C10_Witness ==
    /\ \E j, k \in Declarers("weather") : j < k /\ regLog[j].cls # regLog[k].cls
    /\ get_plugin_for_intent("weather").id = Max(Declarers("weather"))
    /\ get_plugin_for_intent("help") = NoPlugin

\* Names of the classes registered successfully so far
RegisteredNames ==
    {ClassName(regLog[k].cls) : k \in {j \in 1..Len(regLog) : regLog[j].ok}}

\* C11: after any sequence of registrations get_all_plugins() has one
\* element per distinct plugin name registered, each under its own name;
\* registering a plugin again overwrites its entry and leaves the length
\* unchanged.
C11_OneEntryPerName ==
    /\ Cardinality(DOMAIN get_all_plugins(plugins)) = Cardinality(RegisteredNames)
    /\ {get_all_plugins(plugins)[n].name : n \in DOMAIN plugins} = RegisteredNames

\* C11 witness: the same class was registered twice, a second class once,
\* and get_all_plugins() has two elements.
C11_Witness ==
    /\ \E j, k \in 1..Len(regLog) :
          j < k /\ regLog[j].ok /\ regLog[k].ok /\ regLog[j].cls = regLog[k].cls
    /\ Cardinality({k \in 1..Len(regLog) : regLog[k].ok}) = 3
    /\ Cardinality(DOMAIN get_all_plugins(plugins)) = 2

\* Names of the plugins get_tool_definitions emits a schema for
ToolCapableNames == {"Weather", "Wikipedia", "WebSearch"}

\* C12: in a turn of process_user_request served while no tool-capable
\* plugin is registered, the language model is invoked exactly once and
\* execute_tool is never called.
C12_NoToolsOneRoundNoDispatch ==
    (DOMAIN plugins \cap ToolCapableNames = {}) =>
        /\ toolLog = <<>>
        /\ Len(llmCalls) <= 1
        /\ (pc \in {"memory_write", "respond", "done"} => Len(llmCalls) = 1)
        /\ \A k \in 1..Len(llmCalls) : llmCalls[k].tools = <<>>

\* C12 witness: a turn with no tool-capable plugin registered got its
\* answer from the one model call and went on to the memory write.
C12_Witness ==
    /\ DOMAIN plugins \cap ToolCapableNames = {}
    /\ pc = "respond"
    /\ Len(llmCalls) = 1
    /\ response_text \in LLMTexts

\* C12 on the voice bot: a chat turn of process_input invokes the model
\* once, through LLMService.chat, which passes no tool schemas.
C12_BotChatOneRound ==
    (bot_pc \in {"speak", "done"} /\ intent = "chat") =>
        /\ Len(botLlmCalls) = 1
        /\ botLlmCalls[1].tools = <<>>
        /\ handleLog = <<>>

\* C13: when predict returns a non-chat intent that the intent map
\* resolves to a plugin, process_input calls that plugin's handle exactly
\* once, with that intent, and makes no language-model call in the turn.
C13_PluginDispatchOnceNoModel ==
    (bot_pc \in {"speak", "done"} /\ raw # NoRaw /\ intent # "chat"
        /\ intent \in DOMAIN intent_map) =>
        /\ Len(handleLog) = 1
        /\ handleLog[1].plugin = intent_map[intent]
        /\ handleLog[1].intent = intent
        /\ botLlmCalls = <<>>

\* C13 witness: "what time is it" classified ("time", 0.75) was handled by
\* the Time plugin and its answer is about to be spoken.
C13_Witness ==
    /\ bot_pc = "speak"
    /\ text = "what time is it"
    /\ raw = [label |-> "time", conf |-> 75]
    /\ Len(handleLog) = 1
    /\ handleLog[1].plugin.cls = "TimePlugin"
    /\ response = Str(HandleText("TimePlugin", "time"))

\* C14: in the message sequence of a turn, every message with role "tool"
\* carries the id of a tool invocation of an assistant message that
\* precedes it in the sequence.
C14_ToolMessageAnswersEarlierCall ==
    \A k \in 1..Len(messages) :
        messages[k].role = "tool" =>
            \E j \in 1..(k - 1) :
                /\ messages[j].role = "assistant"
                /\ \E i \in 1..Len(messages[j].tool_calls) :
                      messages[j].tool_calls[i].id = messages[k].tool_call_id

\* C14 witness: two tool messages follow the assistant message that asked
\* for two invocations, and round 2 is about to receive the sequence.
C14_Witness ==
    /\ pc = "round2"
    /\ Len(messages) = 5
    /\ messages[3].role = "assistant"
    /\ Len(messages[3].tool_calls) = 2
    /\ messages[4].role = "tool" /\ messages[4].tool_call_id = CallId(1)
    /\ messages[5].role = "tool" /\ messages[5].tool_call_id = CallId(2)

\* The collection held documents when the turn began (documents are only
\* appended, and those of a previous run come first)
StoredBeforeTurn == memory # <<>> /\ <<Head(memory)>> \in StoredDocs

\* MemoryService.query failed in this turn: it answered [] although the
\* collection holds documents
QueryFailed ==
    /\ memory_service # None
    /\ pc \notin {"idle", "context"}
    /\ StoredBeforeTurn
    /\ memory_context = <<>>

\* MemoryService.add failed in this turn: the exchange handed to it is not
\* in the collection
AddFailed ==
    /\ memLog # <<>>
    /\ \A k \in 1..Len(memory) : memory[k] # memLog[1]

\* C15: a failure of the memory query or of the memory add never changes
\* what the user gets: the turn ends without an exception, the response
\* text is delivered, and no error message is sent.
C15_MemoryFailureInvisible ==
    (pc = "done" /\ (QueryFailed \/ AddFailed)) =>
        /\ raised = None
        /\ Delivered(response_text)
        /\ \A k \in 1..Len(sent) : sent[k].type # "error"

\* The memory failures themselves are contained: the step after a failed
\* query or a failed add is the one a successful call leads to.
C15_MemoryStepsContained ==
    /\ (pc = "round1" /\ QueryFailed) => raised = None
    /\ (pc = "respond" /\ AddFailed) =>
          (raised = None /\ memLog[1] = FullExchange(user_text, response_text))

\* C16: every record handed to a memory service at the end of a turn is
\* "User: {utterance}\nAssistant: {response}" with the turn's input text
\* and the response text of the turn.
C16_MemoryRecordForm ==
    bot_pc \in {"speak", "done"} =>
        \A k \in 1..Len(botMemLog) :
            botMemLog[k] = FullExchange(text, response.text)

\* C17: the steps of a turn of process_user_request happen in the order
\* context build, model round 1, then either nothing more or tool dispatch
\* followed by model round 2, then memory write, then delivery; the memory
\* write stores the final response text, which does not change afterwards.
C17_StepsInOrder ==
    [][/\ (llmCalls' # llmCalls /\ Len(llmCalls') = 1) =>
             /\ Len(messages) = 2
             /\ toolLog = <<>> /\ memLog = <<>> /\ sent = <<>>
       /\ (toolLog' # toolLog /\ toolLog' # <<>>) =>
             /\ Len(llmCalls) = 1
             /\ response_message.tool_calls # <<>>
             /\ memLog = <<>> /\ sent = <<>>
       /\ (llmCalls' # llmCalls /\ Len(llmCalls') = 2) =>
             /\ Len(toolLog) = Len(response_message.tool_calls)
             /\ toolLog # <<>>
             /\ memLog = <<>> /\ sent = <<>>
       /\ (memLog' # memLog /\ memLog' # <<>>) =>
             /\ Len(llmCalls) = (IF response_message.tool_calls # <<>> THEN 2 ELSE 1)
             /\ sent = <<>>
             /\ memLog' = <<FullExchange(user_text, response_text')>>
       /\ (pc = "respond" /\ memory_service # None) => Len(memLog) = 1
       /\ (pc \in {"respond", "done"} /\ pc' # "idle") => response_text' = response_text
       /\ (sent' # sent /\ sent' # <<>>) => pc \in {"round1", "respond"}
      ]_vars

\* C17 witness: a turn went through context build, round 1, two tool
\* dispatches, round 2 and the memory write, and is at the delivery step.
C17_Witness ==
    /\ pc = "respond"
    /\ Len(messages) = 5
    /\ Len(toolLog) = 2
    /\ Len(llmCalls) = 2
    /\ memLog = <<FullExchange(user_text, response_text)>>
    /\ sent = <<>>

\* C18: the turns of one source never overlap: while a request of a
\* WebSocket is in progress its endpoint is not receiving, and a later
\* request of the same WebSocket exists only once the earlier one is over;
\* requests of different WebSockets may be in progress together.
C18_TurnsOfOneSourceSequential ==
    /\ \A i, j \in 1..Len(reqs) :
          (i < j /\ reqs[i].src = reqs[j].src) => reqs[i].pc = "returned"
    /\ \A i \in 1..Len(reqs) :
          reqs[i].pc # "returned" => handler[reqs[i].src] = "in_turn"

\* C18 witness: the requests of two WebSockets are in progress together,
\* one in tool dispatch and the other awaiting round 2.
C18_Witness ==
    /\ Len(reqs) = 2
    /\ reqs[1].src # reqs[2].src
    /\ reqs[1].pc = "dispatch"
    /\ reqs[2].pc = "round2"
    /\ handler[reqs[1].src] = "in_turn" /\ handler[reqs[2].src] = "in_turn"

\* C19: a request that was started is eventually over, even when an
\* external call it awaits never returns.
C19_HungCallDoesNotStallTurn ==
    \A i \in 1..MaxConnTurns :
        (i <= Len(reqs)) ~> (i <= Len(reqs) /\ reqs[i].pc = "returned")

\* C20: when the client of a request closes its socket while the request
\* is in progress, the request writes nothing to memory and sends nothing.
C20_ClosedConnectionDiscardsTurn ==
    \A i \in 1..Len(reqs) :
        reqs[i].closed_mid_turn =>
            /\ reqs[i].memLog = <<>>
            /\ reqs[i].sent = <<>>

\* The text lacks the literal markers or prefixes its intent looks for
LacksMarkers(t, i) ==
    LET low == Lower(t)
    IN  CASE i = "weather" -> ~Contains(low, "in")
          [] i \in {"search", "wikipedia"} ->
                \A k \in 1..Len(SearchPrefixes) : ~StartsWith(low, SearchPrefixes[k])
          [] i = "calculate" ->
                \A k \in 1..Len(CalculatePrefixes) : ~StartsWith(low, CalculatePrefixes[k])
          [] i = "reminder_set" -> ~Contains(low, "to")
          [] OTHER -> TRUE

\* C21 as stated: _extract_entities never raises, and a text that lacks
\* the markers or prefixes of its intent gives the empty entity set.
C21_MissingMarkersGiveEmptySet ==
    bot_pc = "handle" =>
        /\ ~entities.raised
        /\ LacksMarkers(text, intent) => entities.value = EmptyDict

\* C21, amended: _extract_entities never raises; a text that lacks the
\* markers or prefixes of its intent gives the empty entity set, except for
\* the intents search and wikipedia, where a text with no known prefix gives
\* the single entity query = the whole lower-cased text.
C21_MissingMarkersEmptyOrWholeQuery ==
    bot_pc = "handle" =>
        /\ ~entities.raised
        /\ LacksMarkers(text, intent) =>
              entities.value = IF intent \in {"search", "wikipedia"}
                               THEN DictSet(EmptyDict, "query", Lower(text))
                               ELSE EmptyDict

C21_Witness ==
    /\ bot_pc = "handle"
    /\ ~entities.raised
    /\ intent = "wikipedia"
    /\ LacksMarkers(text, intent)
    /\ text = <<"Paris">>
    /\ entities.value = DictSet(EmptyDict, "query", <<"paris">>)

\* C22: once startup loading has finished, no step of a turn
\* (get_tool_definitions, execute_tool and the rest of process_user_request)
\* changes the registry's name map or its intent map.
C22_TurnLeavesRegistryAlone ==
    [][plugins' = plugins /\ intent_map' = intent_map]_vars

\* A turn ended after execute_tool invoked a loaded plugin, which is still
\* registered under its name and for its intents.
C22_Witness ==
    /\ pc = "done"
    /\ Len(toolLog) = 2
    /\ LET n == ToolPlugin(toolLog[1].name)
       IN  /\ n \in toolLog[1].loaded
           /\ ~toolLog[1].bodyRaised
           /\ n \in DOMAIN plugins
           /\ \A i \in Range(ClassIntents(plugins[n].cls)) :
                 intent_map[i] = plugins[n]

\* execute_tool(tool_name, arguments) calls a method of a plugin: a raise of
\* that method is what the try body raises
InvokesPlugin(pl, tool_name, arguments) ==
    /\ ExecuteToolBody(pl, tool_name, arguments, TRUE) = Raised("plugin failure")
    /\ ExecuteToolBody(pl, tool_name, arguments, FALSE).value
          \in {PluginText(tool_name, DictGet(arguments.items, key, None)) :
                   key \in {"location", "query"}}

\* The dicts a tool call's arguments parse to
DictArguments == {ParseArguments(p) : p \in {ValidPayload, EmptyPayload}}

\* C23: in every registry state get_tool_definitions emits schemas only for
\* registered plugins of the allow-list, under pairwise distinct tool
\* names, and a tool name is emitted exactly when execute_tool with that
\* name invokes a registered plugin; for every other name execute_tool
\* invokes no plugin and returns the not-found text.
C23_SchemasAgreeWithExecuteTool ==
    LET emitted == get_tool_definitions(plugins)
    IN  /\ \A k \in 1..Len(emitted) :
              ToolPlugin(emitted[k]) \in ToolCapableNames \cap DOMAIN plugins
        /\ \A j, k \in 1..Len(emitted) : emitted[j] = emitted[k] => j = k
        /\ \A tool_name \in ToolNames, arguments \in DictArguments :
              IF tool_name \in Range(emitted)
              THEN InvokesPlugin(plugins, tool_name, arguments)
              ELSE /\ ~InvokesPlugin(plugins, tool_name, arguments)
                   /\ \A pluginRaises \in BOOLEAN :
                         execute_tool(plugins, tool_name, arguments, pluginRaises)
                             = Returned(ToolNotFound(tool_name))

\* Weather and Wikipedia are registered, WebSearch is not: two schemas, and
\* web_search is answered with the not-found text.
C23_Witness ==
    /\ DOMAIN plugins = {"Weather", "Wikipedia"}
    /\ get_tool_definitions(plugins) = <<"get_weather", "search_wikipedia">>
    /\ InvokesPlugin(plugins, "search_wikipedia", ParseArguments(ValidPayload))
    /\ execute_tool(plugins, "web_search", ParseArguments(ValidPayload), FALSE)
           = Returned(ToolNotFound("web_search"))

\* C24: on the chat path of process_input the value handed to voice.speak
\* and held as the response is the response text of the language model, a
\* single text value.
C24_ChatSpeaksResponseText ==
    (bot_pc = "done" /\ intent = "chat" /\ Len(spoken) = 2) =>
        /\ response.kind = "str"
        /\ spoken[2] = Str(response.text)

\* C27: handling one chat utterance in process_input hands exactly one
\* record to the memory store; the exchange is not stored twice.
C27_ChatStoresOneRecord ==
    (bot_pc = "done" /\ intent = "chat" /\ Len(spoken) = 2) =>
        Len(botMemLog) = 1

\* C28: when constructing or registering a plugin class raises, both
\* registry maps are left exactly as they were before that attempt, and the
\* plugin classes and files that come after it are still loaded.
C28_FailedRegistrationLeavesMaps ==
    /\ \A k \in 1..Len(loadLog) :
          loadLog[k].raised => loadLog[k].after = loadLog[k].before
    /\ walk = <<>> =>
          \A k \in 1..Len(loadLog) :
              (loadLog[k].imported /\ ~loadLog[k].raised) =>
                  ClassName(loadLog[k].cls) \in DOMAIN plugins

\* The second half of C28 alone: after the walk every file that imported
\* and registered without a raise has its plugin in the name map, also when
\* an earlier file or class failed.
C28_LoadingContinues ==
    walk = <<>> =>
        \A k \in 1..Len(loadLog) :
            (loadLog[k].imported /\ ~loadLog[k].raised) =>
                ClassName(loadLog[k].cls) \in DOMAIN plugins

\* C29: every reminder stored with a reminder time is eventually marked
\* triggered, also when the plugin is restarted after that time has passed;
\* no reminder whose time has passed stays active forever.
C29_ReminderEventuallyTriggered ==
    \A k \in 1..MaxReminders :
        (Len(reminders) >= k /\ reminders[k].reminder_time # NoTime)
            ~> (Len(reminders) >= k /\ reminders[k].triggered)

\* The key values configured in the environment
ConfiguredSecrets == {environ[var] : var \in DOMAIN environ}

\* C30: no response of GET /api/settings or POST /api/settings contains the
\* value of a configured or submitted API key.
C30_NoKeyInSettingsResponse ==
    \A k \in 1..Len(responses) :
        /\ responses[k].body \cap ConfiguredSecrets = {}
        /\ responses[k].submitted # "" => responses[k].submitted \notin responses[k].body

\* C30 for GET alone
C30_NoConfiguredKeyInGet ==
    \A k \in 1..Len(responses) :
        responses[k].route = "GET" => responses[k].body \cap ConfiguredSecrets = {}

\* C30 for POST alone
C30_NoSubmittedKeyInPost ==
    \A k \in 1..Len(responses) :
        (responses[k].route = "POST" /\ responses[k].submitted # "") =>
            responses[k].submitted \notin responses[k].body

\* ConnectionManager.broadcast is not reached by any request: a request that
\* gets as far as the delivery stage ends in the AttributeError of line 337,
\* and the status callback of the voice engine is never installed. The
\* payload of a turn is therefore sent to no connection at all.
BroadcastNotReached ==
    /\ sent = <<>>
    /\ \A i \in 1..Len(reqs) : reqs[i].sent = <<>>
    /\ ~VoiceThreadStarted

\* C6: when the classifier yields a non-chat intent for which no plugin is
\* registered, the utterance falls back to the chat path: the language
\* model is invoked to produce the response, which is not the canned
\* sentence.
C6_MissingPluginFallsBackToChat ==
    (bot_pc \in {"speak", "done"} /\ raw # NoRaw /\ intent # "chat"
        /\ get_plugin_for_intent(intent) = NoPlugin) =>
        /\ Len(botLlmCalls) = 1
        /\ response # Str(NotSureHow)

\* C7: when classifier.predict raises, the turn goes on as a chat turn and
\* still speaks a response; the failure does not end the turn.
C7_ClassifierFailureFallsBackToChat ==
    (bot_pc = "done" /\ raw = NoRaw) =>
        /\ loopErrors = <<>>
        /\ Len(botLlmCalls) = 1
        /\ Len(spoken) = 2
        /\ spoken[2] = response

\* C8: for every classifier output (label, c): below 0.35 predict's intent
\* is "chat" whatever the label, and from 0.35 on (0.35 included) it is
\* the label unchanged.
C8_ThresholdRouting ==
    raw # NoRaw =>
        /\ (raw.conf < 35 => intent = "chat")
        /\ (raw.conf >= 35 => intent = raw.label)

\* C8 witness: a confidence of exactly 0.35 with a non-chat label keeps
\* the label.
C8_Witness ==
    /\ bot_pc = "route"
    /\ raw.conf = 35
    /\ raw.label = "weather"
    /\ intent = "weather"

====
